---------------------------- MODULE Spec2Model ----------------------------
(***************************************************************************)
(* A model of the iterant library: the generic wrapper Iterant             *)
(* (src/iterant.js), the array wrapper IterantArray (src/iterant-array.js) *)
(* and the sequence wrapper IterantSequence (src/iterant-sequence.js).     *)
(*                                                                         *)
(* The state is a heap of JavaScript objects (arrays, MarkLogic sequences, *)
(* generator objects, wrappers) and the outcome of the client's last call. *)
(* A generator object is a suspended activation of one of the generator    *)
(* functions Iterant.map / filter / slice / concat; GeneratorResume runs   *)
(* its body from the point of suspension to the next yield, return or      *)
(* throw, exactly as one call of next() does.                              *)
(***************************************************************************)
EXTENDS Integers, Sequences, FiniteSets, TLC

VARIABLES
  objs,   \* the heap: a sequence of objects, an object's identity is its index
  ret,    \* the value returned by the client's last call (Undef when it threw)
  out,    \* the items the last call materialised (Array.from, toArray)
  err,    \* the error the last call threw: "" when it returned normally
  log,    \* the callbacks and external primitives the last call invoked
  last,   \* the last call: its name, receiver, arguments, the heap before it
  called  \* whether the client has made its call of a chain operation

vars == <<objs, ret, out, err, log, last, called>>

(***************************************************************************)
(* Bounds of the model.                                                    *)
(***************************************************************************)
\* The longest array or sequence the client starts from, and the largest
\* slice bound it passes.
MaxLen == 3

\* More items than any finite source of the model gives (source, nested
\* array and three concat arguments included).  A loop that has pulled this
\* many items is pulling from a source that does not end, and is reported
\* as the outcome "nontermination".
Patience == 2 * MaxLen + 6

(***************************************************************************)
(* JavaScript values.  t is the result of typeof; v is the number, or the  *)
(* heap index of an object; f names a function or spells a string, and is  *)
(* "half" for the non-integer number v + 0.5.                              *)
(***************************************************************************)
Num(n)  == [t |-> "number",    v |-> n, f |-> ""]
Frac(n) == [t |-> "number",    v |-> n, f |-> "half"]
Undef   == [t |-> "undefined", v |-> 0, f |-> ""]
Null    == [t |-> "object",    v |-> 0, f |-> "null"]
Bool(b) == [t |-> "boolean",   v |-> IF b THEN 1 ELSE 0, f |-> ""]
Str(s)  == [t |-> "string",    v |-> 0, f |-> s]
Fn(name) == [t |-> "function", v |-> 0, f |-> name]
Ref(i)  == [t |-> "object",    v |-> i, f |-> ""]

NaN     == [t |-> "number",    v |-> 0, f |-> "NaN"]
\* new Error(): an object without Symbol.iterator.
ErrorObject == [t |-> "object", v |-> 0, f |-> "error"]
\* A document node whose xpath() has n results for the path that matches.
Node(n) == [t |-> "object",    v |-> n, f |-> "node"]

IsRef(x) == x.t = "object" /\ x.f = ""
IsInt(x) == x.t = "number" /\ x.f = ""

\* The characters of the strings the client uses.
Chars(x) ==
  CASE x.f = "ab" -> <<Str("a"), Str("b")>>
    [] x.f = "a"  -> <<Str("a")>>
    [] x.f = "b"  -> <<Str("b")>>
    [] OTHER      -> <<>>

(***************************************************************************)
(* Heap objects.  Every object has the same fields:                        *)
(*   kind      "Array", "Sequence", "Generator", or the wrapper's class    *)
(*             "Iterant", "IterantArray", "IterantSequence"                *)
(*   items     the elements of an Array or Sequence                        *)
(*   fn        the generator function a Generator is an activation of      *)
(*   iterable  a wrapper's _iterable; a generator's parameter `iterable`   *)
(*   p1, p2    a generator's parameters (fct | predicate | begin, end)     *)
(*   args      a generator's rest parameter (...args of concat)            *)
(*   state     a generator's state: suspendedStart, suspendedYield,        *)
(*             completed                                                   *)
(*   index     a generator's local variable `index`                        *)
(*   k         concat: 0 while inside `yield* iterable`, i while inside    *)
(*             `yield* arg` for the i-th argument                          *)
(*   pos       position of the iterator the generator holds on an Array,   *)
(*             Sequence or string (generators are their own iterators)     *)
(***************************************************************************)
Blank ==
  [kind |-> "", items |-> <<>>, fn |-> "", iterable |-> Undef, p1 |-> Undef,
   p2 |-> Undef, args |-> <<>>, state |-> "", index |-> 0, k |-> 0, pos |-> 0]

NewArray(xs)    == [Blank EXCEPT !.kind = "Array", !.items = xs]
NewSequence(xs) == [Blank EXCEPT !.kind = "Sequence", !.items = xs]

WrapperKinds == {"Iterant", "IterantArray", "IterantSequence"}

KindOf(h, x) == IF IsRef(x) /\ x.v \in 1..Len(h) THEN h[x.v].kind ELSE ""
IsWrapper(h, x) == KindOf(h, x) \in WrapperKinds


(***************************************************************************)
(* Iterant.isIterable (src/iterant.js:133).  obj[Symbol.iterator] is       *)
(* present on strings, arrays, sequences, generator objects and on every   *)
(* wrapper (Iterant.prototype[Symbol.iterator]).                           *)
(***************************************************************************)
HasSymbolIterator(h, obj) ==
  \/ obj.t = "string"
  \/ KindOf(h, obj) \in {"Array", "Sequence", "Generator"} \cup WrapperKinds

\* isIterable taking every ignoreStrings but false and undefined for true.
isIterable_LooseFlag(h, obj, ignoreStrings) ==
  IF obj = Null \/ obj.t = "undefined" THEN FALSE
  ELSE IF obj.t = "string" /\ ignoreStrings \notin {Undef, Bool(FALSE)}
  THEN FALSE
  ELSE HasSymbolIterator(h, obj)

isIterable(h, obj, ignoreStrings) ==
  IF obj = Null \/ obj.t = "undefined" THEN FALSE
  ELSE IF obj.t = "string" /\ ignoreStrings = Bool(TRUE) THEN FALSE
  ELSE HasSymbolIterator(h, obj)

(***************************************************************************)
(* The callbacks the client passes.  They are inputs, not library code:    *)
(*   inc     x => x + 1                  dbl   x => 2 * x                  *)
(*   odd     x => x % 2 === 1            evenIdx  (x, i) => i % 2 === 0    *)
(*   add     (p, c) => p + c             lin   (p, c) => 2 * p + c         *)
(*   wsum    (p, c, i) => p + c * (i + 1)                                  *)
(*   boom    (item) => { throw new Error(); }   (src/unnamed/part_002:27)  *)
(* Each reads an argument that is not a number as 0 (x | 0), and none of   *)
(* them uses `this`, so the parameter `that` is not modelled.              *)
(***************************************************************************)
N(x) == IF x.t = "number" THEN x.v ELSE 0

Apply(f, a) ==
  CASE f = "inc"     -> Num(N(a[1]) + 1)
    [] f = "dbl"     -> Num(2 * N(a[1]))
    [] f = "odd"     -> Bool(N(a[1]) % 2 = 1)
    [] f = "evenIdx" -> Bool(N(a[2]) % 2 = 0)
    [] f = "add"     -> Num(N(a[1]) + N(a[2]))
    [] f = "lin"     -> Num(2 * N(a[1]) + N(a[2]))
    [] f = "wsum"    -> Num(N(a[1]) + N(a[2]) * (N(a[3]) + 1))
    [] OTHER         -> Undef

\* The callback that throws instead of returning.
Throws(f) == f = "boom"

Truthy(x) ==
  CASE x.t = "boolean"   -> x.v = 1
    [] x.t = "number"    -> ~(x.v = 0 /\ x.f = "") /\ x # NaN
    [] x.t = "undefined" -> FALSE
    [] x.t = "string"    -> x.f # ""
    [] OTHER             -> x # Null

\* index >= bound and index > bound for an integer index, as JavaScript
\* compares them: undefined and non-numeric strings convert to NaN (every
\* comparison false), null converts to 0.
GE(i, b) ==
  CASE b.t = "number" /\ b.f = ""     -> i >= b.v
    [] b.t = "number" /\ b.f = "half" -> i > b.v
    [] b = Null                       -> i >= 0
    [] OTHER                          -> FALSE

GT(i, b) ==
  CASE b.t = "number" -> i > b.v
    [] b = Null       -> i > 0
    [] OTHER          -> FALSE

\* Only({e : x \in {v}}) is e with x naming the value of v: v is evaluated
\* once, as a statement's result is computed once before it is used.
Only(S) == CHOOSE x \in S : TRUE

(***************************************************************************)
(* Results of running code: the heap and log it leaves, and whether it     *)
(* yielded `value`, returned (done) or threw.                              *)
(***************************************************************************)
Yield(M, x)  == [objs |-> M.objs, log |-> M.log, done |-> FALSE, value |-> x,
                 thrown |-> ""]
Return(M)    == [objs |-> M.objs, log |-> M.log, done |-> TRUE, value |-> Undef,
                 thrown |-> ""]
Throw(M, e)  == [objs |-> M.objs, log |-> M.log, done |-> TRUE, value |-> Undef,
                 thrown |-> e]
Value(M, x)  == [objs |-> M.objs, log |-> M.log, done |-> TRUE, value |-> x,
                 thrown |-> ""]

\* fct.call(null, ...a): the invocation is logged.  Calling what is not a
\* function is a TypeError.
Call(M, fct, a) ==
  IF fct.t # "function" THEN Throw(M, "TypeError")
  ELSE IF Throws(fct.f)
  THEN Throw([objs |-> M.objs,
              log  |-> Append(M.log, [f |-> fct.f, a |-> a])], "Error")
  ELSE Value([objs |-> M.objs,
              log  |-> Append(M.log, [f |-> fct.f, a |-> a])],
             Apply(fct.f, a))

Completed(M, g) ==
  [objs |-> [M.objs EXCEPT ![g].state = "completed"], log |-> M.log]

\* Iterant.prototype[Symbol.iterator] is `yield* this._iterable`: iterating a
\* wrapper iterates what it wraps.
RECURSIVE Resolve(_, _)
Resolve(h, x) ==
  IF IsWrapper(h, x) THEN Resolve(h, h[x.v].iterable) ELSE x

\* The iterable a suspended generator is currently looping over.
Current(G) ==
  IF G.k = 0 \/ G.fn # "concat" THEN G.iterable ELSE G.args[G.k]

\* iterator.return(), which a `break` out of for..of calls: a generator that
\* is suspended at a yield completes, and closes the iterator it loops over.
RECURSIVE IteratorClose(_, _)
IteratorClose(h, x) ==
  LET r == Resolve(h, x) IN
  IF KindOf(h, r) # "Generator" \/ h[r.v].state = "completed" THEN h
  ELSE IF h[r.v].state = "suspendedStart"
       THEN [h EXCEPT ![r.v].state = "completed"]
       ELSE IteratorClose([h EXCEPT ![r.v].state = "completed"],
                          Current(h[r.v]))

RECURSIVE GeneratorResume(_, _)

\* next() of the iterator a loop holds on x; pos is the iterator's position
\* when x is an array, a sequence or a string.  A value without
\* Symbol.iterator cannot be iterated: TypeError.
IteratorNext(M, x, pos) ==
  LET r == Resolve(M.objs, x) IN
  CASE KindOf(M.objs, r) \in {"Array", "Sequence"} ->
         IF pos < Len(M.objs[r.v].items)
         THEN Yield(M, M.objs[r.v].items[pos + 1]) ELSE Return(M)
    [] r.t = "string" ->
         IF pos < Len(Chars(r)) THEN Yield(M, Chars(r)[pos + 1]) ELSE Return(M)
    [] KindOf(M.objs, r) = "Generator" -> GeneratorResume(M, r.v)
    [] OTHER -> Throw(M, "TypeError")

\* The generator has received an item (or skipped one) and is inside its loop.
Advance(M, g) ==
  [objs |-> [M.objs EXCEPT ![g].state = "suspendedYield",
                           ![g].pos = @ + 1],
   log |-> M.log]

(***************************************************************************)
(* Iterant.map = function*(iterable, fct, that)      src/iterant.js:153    *)
(***************************************************************************)
\* Iterant.map with the transform's result dropped: the source item is
\* yielded as it is.
Iterant_map_YieldsSourceItem(M, g) ==
  LET G == M.objs[g] IN
  IF G.state = "suspendedStart" /\ ~isIterable(M.objs, G.iterable, Undef)
  THEN Throw(Completed(M, g), "TypeError")
  ELSE IF G.state = "suspendedStart" /\ G.p1.t # "function"
  THEN Throw(Completed(M, g), "TypeError")
  ELSE Only({
         IF r.thrown # "" THEN Throw(Completed(r, g), r.thrown)
         ELSE IF r.done THEN Return(Completed(r, g))
         ELSE LET c == Call(r, G.p1, <<r.value>>) IN
              IF c.thrown # ""
              THEN Throw(Completed([objs |-> IteratorClose(c.objs, G.iterable),
                                    log |-> c.log], g), c.thrown)
              ELSE Yield(Advance(c, g), r.value)
         : r \in {IteratorNext(M, G.iterable, G.pos)} })

\* Iterant.map invoking the transform twice on each item.
Iterant_map_CallsTwice(M, g) ==
  LET G == M.objs[g] IN
  IF G.state = "suspendedStart" /\ ~isIterable(M.objs, G.iterable, Undef)
  THEN Throw(Completed(M, g), "TypeError")
  ELSE IF G.state = "suspendedStart" /\ G.p1.t # "function"
  THEN Throw(Completed(M, g), "TypeError")
  ELSE Only({
         IF r.thrown # "" THEN Throw(Completed(r, g), r.thrown)
         ELSE IF r.done THEN Return(Completed(r, g))
         ELSE LET c == Call(Call(r, G.p1, <<r.value>>), G.p1, <<r.value>>) IN
              IF c.thrown # ""
              THEN Throw(Completed([objs |-> IteratorClose(c.objs, G.iterable),
                                    log |-> c.log], g), c.thrown)
              ELSE Yield(Advance(c, g), c.value)
         : r \in {IteratorNext(M, G.iterable, G.pos)} })

Iterant_map(M, g) ==
  LET G == M.objs[g] IN
  IF G.state = "suspendedStart" /\ ~isIterable(M.objs, G.iterable, Undef)
  THEN Throw(Completed(M, g), "TypeError")
  ELSE IF G.state = "suspendedStart" /\ G.p1.t # "function"
  THEN Throw(Completed(M, g), "TypeError")
  ELSE Only({
         IF r.thrown # "" THEN Throw(Completed(r, g), r.thrown)
         ELSE IF r.done THEN Return(Completed(r, g))
         ELSE LET c == Call(r, G.p1, <<r.value>>) IN
              IF c.thrown # ""
              THEN Throw(Completed([objs |-> IteratorClose(c.objs, G.iterable),
                                    log |-> c.log], g), c.thrown)
              ELSE Yield(Advance(c, g), c.value)
         : r \in {IteratorNext(M, G.iterable, G.pos)} })

(***************************************************************************)
(* Iterant.filter = function*(iterable, predicate, that)  iterant.js:259   *)
(***************************************************************************)
\* Iterant.filter with the index counting the items yielded instead of the
\* items considered.
RECURSIVE Iterant_filter_IndexPerYield(_, _)
Iterant_filter_IndexPerYield(M, g) ==
  LET G == M.objs[g] IN
  IF G.state = "suspendedStart" /\ ~isIterable(M.objs, G.iterable, Undef)
  THEN Throw(Completed(M, g), "TypeError")
  ELSE IF G.state = "suspendedStart" /\ G.p1.t # "function"
  THEN Throw(Completed(M, g), "TypeError")
  ELSE Only({
         IF r.thrown # "" THEN Throw(Completed(r, g), r.thrown)
         ELSE IF r.done THEN Return(Completed(r, g))
         ELSE LET c  == Call(r, G.p1, <<r.value, Num(G.index)>>)
                  M1 == Advance(c, g)
                  M2 == [M1 EXCEPT !.objs[g].index = @ + 1]
              IN IF Truthy(c.value) THEN Yield(M2, r.value)
                 ELSE Iterant_filter_IndexPerYield(M1, g)
         : r \in {IteratorNext(M, G.iterable, G.pos)} })

RECURSIVE Iterant_filter(_, _)
Iterant_filter(M, g) ==
  LET G == M.objs[g] IN
  IF G.state = "suspendedStart" /\ ~isIterable(M.objs, G.iterable, Undef)
  THEN Throw(Completed(M, g), "TypeError")
  ELSE IF G.state = "suspendedStart" /\ G.p1.t # "function"
  THEN Throw(Completed(M, g), "TypeError")
  ELSE Only({
         IF r.thrown # "" THEN Throw(Completed(r, g), r.thrown)
         ELSE IF r.done THEN Return(Completed(r, g))
         ELSE LET c  == Call(r, G.p1, <<r.value, Num(G.index)>>)
                  M1 == Advance(c, g)
                  M2 == [M1 EXCEPT !.objs[g].index = @ + 1]
              IN IF Truthy(c.value) THEN Yield(M2, r.value)
                 ELSE Iterant_filter(M2, g)
         : r \in {IteratorNext(M, G.iterable, G.pos)} })

(***************************************************************************)
(* Iterant.slice = function*(iterable, begin, end)   src/iterant.js:220    *)
(*   for (const value of iterable) {                                       *)
(*     if (index++ >= begin) { yield value; }                              *)
(*     if (index > end) { break; }                                         *)
(*   }                                                                     *)
(* A generator resumed after the yield goes on with the test of `end`.     *)
(***************************************************************************)
Break(M, g) ==
  Return(Completed([objs |-> IteratorClose(M.objs, M.objs[g].iterable),
                    log |-> M.log], g))

\* Iterant.slice without `if (index > end) break`.
RECURSIVE Iterant_slice_NeverBreaks(_, _)
Iterant_slice_NeverBreaks(M, g) ==
  LET G == M.objs[g] IN
  IF G.state = "suspendedStart" /\ ~isIterable(M.objs, G.iterable, Undef)
  THEN Throw(Completed(M, g), "TypeError")
  ELSE IF G.p1.t = "undefined"
  THEN Only({
         IF r.thrown # "" THEN Throw(Completed(r, g), r.thrown)
         ELSE IF r.done THEN Return(Completed(r, g))
         ELSE Yield(Advance(r, g), r.value)
         : r \in {IteratorNext(M, G.iterable, G.pos)} })
  ELSE IF G.state = "suspendedStart" /\ G.p1.t # "number"
  THEN Throw(Completed(M, g), "TypeError")
  ELSE Only({
         IF r.thrown # "" THEN Throw(Completed(r, g), r.thrown)
         ELSE IF r.done THEN Return(Completed(r, g))
         ELSE LET M1 == Advance(r, g)
                  M2 == [M1 EXCEPT !.objs[g].index = @ + 1]
              IN IF GE(G.index, G.p1) THEN Yield(M2, r.value)
                 ELSE Iterant_slice_NeverBreaks(M2, g)
         : r \in {IteratorNext(M, G.iterable, G.pos)} })

RECURSIVE Iterant_slice(_, _)
Iterant_slice(M, g) ==
  LET G == M.objs[g] IN
  IF G.state = "suspendedStart" /\ ~isIterable(M.objs, G.iterable, Undef)
  THEN Throw(Completed(M, g), "TypeError")
  ELSE IF G.p1.t = "undefined"
  THEN \* yield* iterable; return;
       Only({
         IF r.thrown # "" THEN Throw(Completed(r, g), r.thrown)
         ELSE IF r.done THEN Return(Completed(r, g))
         ELSE Yield(Advance(r, g), r.value)
         : r \in {IteratorNext(M, G.iterable, G.pos)} })
  ELSE IF G.state = "suspendedStart" /\ G.p1.t # "number"
  THEN Throw(Completed(M, g), "TypeError")
  ELSE IF G.state = "suspendedYield" /\ GT(G.index, G.p2)
  THEN Break(M, g)
  ELSE Only({
         IF r.thrown # "" THEN Throw(Completed(r, g), r.thrown)
         ELSE IF r.done THEN Return(Completed(r, g))
         ELSE LET M1 == Advance(r, g)
                  M2 == [M1 EXCEPT !.objs[g].index = @ + 1]
              IN IF GE(G.index, G.p1) THEN Yield(M2, r.value)
                 ELSE IF GT(G.index + 1, G.p2) THEN Break(M2, g)
                 ELSE Iterant_slice(M2, g)
         : r \in {IteratorNext(M, G.iterable, G.pos)} })

(***************************************************************************)
(* Iterant.concat = function*(iterable, ...args)     src/iterant.js:273    *)
(*   yield* iterable; for (const arg of args) { yield* arg; }              *)
(***************************************************************************)
RECURSIVE Iterant_concat(_, _)
Iterant_concat(M, g) ==
  LET G == M.objs[g] IN
  Only({
    IF r.thrown # "" THEN Throw(Completed(r, g), r.thrown)
    ELSE IF r.done
    THEN IF G.k = Len(G.args) THEN Return(Completed(r, g))
         ELSE Iterant_concat(
                [objs |-> [r.objs EXCEPT ![g].state = "suspendedYield",
                                         ![g].k = @ + 1, ![g].pos = 0],
                 log |-> r.log], g)
    ELSE Yield(Advance(r, g), r.value)
    : r \in {IteratorNext(M, Current(G), G.pos)} })

(***************************************************************************)
(* Iterant.delegate = function*(iterable, gen, that)  src/iterant.js:175   *)
(*   for (const item of iterable) { yield* gen.call(that || null, item); } *)
(* with gen the generator function IterantSequence.prototype.xpath passes. *)
(***************************************************************************)
\* item instanceof Node || item instanceof Document ||
\*   'function' === typeof item.xpath
HasXPath(item) == item.t = "object" /\ item.f = "node"

\* item.xpath(path, bindings) of a node: the path "a" matches, giving the
\* node's results; any other path matches nothing.
Node_xpath(item, path) ==
  IF path = Str("a") THEN [i \in 1..item.v |-> Num(10 * item.v + i)]
  ELSE <<>>

\* While the inner generator is live the item it was called with is in
\* args and the number of results it has yielded in k.  Reading .xpath of
\* null or undefined is a TypeError, raised inside the for..of loop.
RECURSIVE Iterant_delegate(_, _)
Iterant_delegate(M, g) ==
  LET G == M.objs[g] IN
  IF G.state = "suspendedStart" /\ ~isIterable(M.objs, G.iterable, Undef)
  THEN Throw(Completed(M, g), "TypeError")
  ELSE IF G.state = "suspendedStart" /\ G.p1.t # "function"
  THEN Throw(Completed(M, g), "TypeError")
  ELSE IF G.args # <<>>
  THEN IF G.k < Len(Node_xpath(G.args[1], G.p2))
       THEN Yield([objs |-> [M.objs EXCEPT ![g].k = @ + 1], log |-> M.log],
                  Node_xpath(G.args[1], G.p2)[G.k + 1])
       ELSE Iterant_delegate(
              [objs |-> [M.objs EXCEPT ![g].k = 0, ![g].args = <<>>],
               log |-> M.log], g)
  ELSE Only({
         IF r.thrown # "" THEN Throw(Completed(r, g), r.thrown)
         ELSE IF r.done THEN Return(Completed(r, g))
         ELSE IF r.value = Null \/ r.value.t = "undefined"
         THEN Throw(Completed([objs |-> IteratorClose(r.objs, G.iterable),
                               log |-> r.log], g), "TypeError")
         ELSE IF ~HasXPath(r.value) THEN Iterant_delegate(Advance(r, g), g)
         ELSE Iterant_delegate(
                [objs |-> [Advance(r, g).objs EXCEPT ![g].args = <<r.value>>],
                 log |-> r.log], g)
         : r \in {IteratorNext(M, G.iterable, G.pos)} })

\* A generator of the client's that does not end:
\*   function*() { let i = 0; while (true) yield ++i; }
naturals(M, g) == Yield(Advance(M, g), Num(M.objs[g].pos + 1))

\* next() that runs a completed generator again from its start.
GeneratorResume_Rewinds(M, g) ==
  LET R == IF M.objs[g].state # "completed" THEN M
           ELSE [objs |-> [M.objs EXCEPT ![g].state = "suspendedStart",
                                         ![g].pos = 0, ![g].index = 0,
                                         ![g].k = 0, ![g].args = <<>>],
                 log |-> M.log]
      G == R.objs[g]
  IN CASE G.fn = "map"    -> Iterant_map(R, g)
       [] G.fn = "filter" -> Iterant_filter(R, g)
       [] G.fn = "slice"  -> Iterant_slice(R, g)
       [] G.fn = "concat" -> Iterant_concat(R, g)
       [] G.fn = "delegate" -> Iterant_delegate(R, g)
       [] G.fn = "naturals" -> naturals(R, g)

\* One call of next() on the generator object g.
GeneratorResume(M, g) ==
  LET G == M.objs[g] IN
  CASE G.state = "completed" -> Return(M)
    [] G.state # "completed" /\ G.fn = "map"    -> Iterant_map(M, g)
    [] G.state # "completed" /\ G.fn = "filter" -> Iterant_filter(M, g)
    [] G.state # "completed" /\ G.fn = "slice"  -> Iterant_slice(M, g)
    [] G.state # "completed" /\ G.fn = "concat" -> Iterant_concat(M, g)
    [] G.state # "completed" /\ G.fn = "delegate" -> Iterant_delegate(M, g)
    [] G.state # "completed" /\ G.fn = "naturals" -> naturals(M, g)

\* Array.from(x): pulls until the iterator is done.  `items` is the array
\* built; when the iteration throws no array is returned.
RECURSIVE Drain(_, _, _, _)
Drain(M, x, pos, acc) ==
  IF pos > Patience
  THEN [objs |-> M.objs, log |-> M.log, items |-> acc,
        thrown |-> "nontermination"]
  ELSE
  Only({
    IF r.thrown # "" \/ r.done
    THEN [objs |-> r.objs, log |-> r.log, items |-> acc, thrown |-> r.thrown]
    ELSE Drain(r, x, pos + 1, Append(acc, r.value))
    : r \in {IteratorNext(M, x, pos)} })

Array_from(M, x) == Drain(M, x, 0, <<>>)


(***************************************************************************)
(* Allocation and the three factories.                                     *)
(***************************************************************************)
Alloc(M, o) == [objs |-> Append(M.objs, o), log |-> M.log]
Newest(M)   == Ref(Len(M.objs))

\* A generator function whose call runs the body to its first yield.
NewGenerator_RunsBody(M, fn, iterable, p1, p2, args) ==
  LET A == Alloc(M, [Blank EXCEPT !.kind = "Generator", !.fn = fn,
                                  !.iterable = iterable, !.p1 = p1, !.p2 = p2,
                                  !.args = args, !.state = "suspendedStart"])
  IN Only({ Value(r, Newest(A))
            : r \in {GeneratorResume(A, Len(A.objs))} })

NewGenerator(M, fn, iterable, p1, p2, args) ==
  LET A == Alloc(M, [Blank EXCEPT !.kind = "Generator", !.fn = fn,
                                  !.iterable = iterable, !.p1 = p1, !.p2 = p2,
                                  !.args = args, !.state = "suspendedStart"])
  IN Value(A, Newest(A))

NewWrapper(M, kind, iterable) ==
  LET A == Alloc(M, [Blank EXCEPT !.kind = kind, !.iterable = iterable])
  IN Value(A, Newest(A))

\* function Iterant(iterable)                        src/iterant.js:79
Iterant(M, iterable) == NewWrapper(M, "Iterant", iterable)

\* IterantArray without the Array.isArray test.
IterantArray_WrapsAnything(M, array) == NewWrapper(M, "IterantArray", array)

\* function IterantArray(array)                      src/iterant-array.js:33
IterantArray(M, array) ==
  IF KindOf(M.objs, array) # "Array" THEN Throw(M, "TypeError")
  ELSE NewWrapper(M, "IterantArray", array)

\* function IterantSequence(sequence)                src/iterant-sequence.js:37
IterantSequence(M, sequence) ==
  IF KindOf(M.objs, sequence) # "Sequence" THEN Throw(M, "TypeError")
  ELSE NewWrapper(M, "IterantSequence", sequence)

\* x instanceof C: IterantArray.prototype and IterantSequence.prototype are
\* created from Iterant.prototype (src/iterant-array.js:43,
\* src/iterant-sequence.js:48).
InstanceOf(h, x, C) ==
  IF C = "Iterant" THEN IsWrapper(h, x) ELSE KindOf(h, x) = C

Construct(M, Constructor, x) ==
  CASE Constructor = "Iterant"         -> Iterant(M, x)
    [] Constructor = "IterantArray"    -> IterantArray(M, x)
    [] Constructor = "IterantSequence" -> IterantSequence(M, x)

\* x[Symbol.species]: only IterantSequence.prototype declares one
\* (src/iterant-sequence.js:51), so only an IterantSequence wrapper has it.
\* "" is undefined; reading a property of null or undefined is a TypeError.
Species(h, x) ==
  IF x = Null \/ x.t = "undefined" THEN "TypeError"
  ELSE IF KindOf(h, x) = "IterantSequence" THEN "IterantSequence"
  ELSE ""

\* Iterant.prototype.clone                            src/iterant.js:430
\*   return this[Symbol.species](this._iterator);
\* No wrapper has a property _iterator, so the argument is undefined; a
\* receiver without Symbol.species calls undefined, a TypeError.
Iterant_prototype_clone(M, this) ==
  IF Species(M.objs, this) = "" THEN Throw(M, "TypeError")
  ELSE Construct(M, Species(M.objs, this), Undef)

\* Constructor(<generator call>): the argument is evaluated, then the
\* constructor is applied to it.
Rewrap(M, Constructor, fn, iterable, p1, p2, args) ==
  LET g == NewGenerator(M, fn, iterable, p1, p2, args)
  IN Construct(g, Constructor, g.value)

(***************************************************************************)
(* Iterant.prototype: map, reduce, slice, filter, concat, toArray          *)
(* (src/iterant.js:310-391, 456).  map falls back to the identifier        *)
(* `Iterable`, which src/iterant.js does not define: a ReferenceError.     *)
(***************************************************************************)
Iterant_prototype_map(M, this, fct) ==
  LET it == M.objs[this.v].iterable
      sp == Species(M.objs, it)
  IN IF sp = "TypeError" THEN Throw(M, "TypeError")
     ELSE IF sp = "" THEN Throw(M, "ReferenceError")
     ELSE Rewrap(M, sp, "map", it, fct, Undef, <<>>)

Iterant_prototype_slice(M, this, begin, end) ==
  LET it == M.objs[this.v].iterable
      sp == Species(M.objs, it)
  IN IF sp = "TypeError" THEN Throw(M, "TypeError")
     ELSE Rewrap(M, IF sp = "" THEN "Iterant" ELSE sp, "slice", it, begin, end,
                 <<>>)

Iterant_prototype_filter(M, this, predicate) ==
  LET it == M.objs[this.v].iterable
      sp == Species(M.objs, it)
  IN IF sp = "TypeError" THEN Throw(M, "TypeError")
     ELSE Rewrap(M, IF sp = "" THEN "Iterant" ELSE sp, "filter", it, predicate,
                 Undef, <<>>)

Iterant_prototype_concat(M, this, items) ==
  LET it == M.objs[this.v].iterable
      sp == Species(M.objs, it)
  IN IF sp = "TypeError" THEN Throw(M, "TypeError")
     ELSE Rewrap(M, IF sp = "" THEN "Iterant" ELSE sp, "concat", it, Undef,
                 Undef, items)

\* Iterant.reduce = function(iterable, fct, init)    src/iterant.js:196
\* An exception inside for..of closes the iterator before it propagates.
RECURSIVE ReduceLoop(_, _, _, _, _, _)
ReduceLoop(M, iterable, fct, pos, value, index) ==
  IF pos > Patience THEN Throw(M, "nontermination")
  ELSE
  Only({
    IF r.thrown # "" THEN Throw(r, r.thrown)
    ELSE IF r.done THEN Value(r, value)
    ELSE LET c == Call(r, fct, <<value, r.value, Num(index)>>) IN
         IF c.thrown # ""
         THEN Throw([objs |-> IteratorClose(c.objs, iterable), log |-> c.log],
                    c.thrown)
         ELSE ReduceLoop(c, iterable, fct, pos + 1, c.value, index + 1)
    : r \in {IteratorNext(M, iterable, pos)} })

\* Iterant.reduce with the index starting at 1 instead of 0.
Iterant_reduce_IndexFromOne(M, iterable, fct, init) ==
  IF ~isIterable(M.objs, iterable, Undef) THEN Throw(M, "TypeError")
  ELSE ReduceLoop(M, iterable, fct, 0, init, 1)

Iterant_reduce(M, iterable, fct, init) ==
  IF ~isIterable(M.objs, iterable, Undef) THEN Throw(M, "TypeError")
  ELSE ReduceLoop(M, iterable, fct, 0, init, 0)

Iterant_prototype_reduce(M, this, reducer, init) ==
  Iterant_reduce(M, this, reducer, init)

\* Iterant.prototype.toArray: Array.from(this)
Iterant_prototype_toArray(M, this) == Array_from(M, this)


(***************************************************************************)
(* Sorting.  String(x) is modelled by the code points of its result, so    *)
(* that the default comparator orders 10 before 2.                         *)
(***************************************************************************)
RECURSIVE Digits(_)
Digits(n) ==
  IF n < 10 THEN <<48 + n>> ELSE Append(Digits(n \div 10), 48 + (n % 10))

StringOf(x) ==
  CASE x.t = "number" /\ x.f = "" ->
         IF x.v < 0 THEN <<45>> \o Digits(-x.v) ELSE Digits(x.v)
    [] x.t = "number" /\ x.f = "half" ->
         (IF x.v < 0 THEN <<45>> \o Digits(-x.v - 1) ELSE Digits(x.v))
           \o <<46, 53>>
    [] x.t = "string" /\ x.f = "a"  -> <<97>>
    [] x.t = "string" /\ x.f = "b"  -> <<98>>
    [] x.t = "string" /\ x.f = "ab" -> <<97, 98>>
    [] x.t = "undefined" -> <<117, 110, 100, 101, 102, 105, 110, 101, 100>>
    [] OTHER -> <<>>

RECURSIVE StrLess(_, _)
StrLess(a, b) ==
  IF b = <<>> THEN FALSE
  ELSE IF a = <<>> THEN TRUE
  ELSE IF Head(a) # Head(b) THEN Head(a) < Head(b)
  ELSE StrLess(Tail(a), Tail(b))

\* defaultComparator comparing the operands as numbers.
defaultComparator_Numeric(a, b) ==
  IF N(a) = N(b) THEN 0 ELSE IF N(a) < N(b) THEN -1 ELSE 1

\* function defaultComparator(a, b)                  src/iterant.js:409
defaultComparator(a, b) ==
  LET sa == StringOf(a)
      sb == StringOf(b)
  IN IF sa = sb THEN 0 ELSE IF StrLess(sa, sb) THEN -1 ELSE 1

\* The comparators the client passes: asc (a, b) => a - b, desc
\* (a, b) => b - a.  "default" is defaultComparator; an undefined comparator
\* makes Array.prototype.sort compare the elements' strings itself.
Compare(cmp, a, b) ==
  CASE cmp.f = "asc"  -> N(a) - N(b)
    [] cmp.f = "desc" -> N(b) - N(a)
    [] OTHER          -> defaultComparator(a, b)

RECURSIVE InsertSorted(_, _, _)
InsertSorted(xs, x, cmp) ==
  IF xs = <<>> THEN <<x>>
  ELSE IF Compare(cmp, xs[Len(xs)], x) <= 0 THEN Append(xs, x)
  ELSE Append(InsertSorted(SubSeq(xs, 1, Len(xs) - 1), x, cmp), xs[Len(xs)])

RECURSIVE Sorted(_, _)
Sorted(xs, cmp) ==
  IF xs = <<>> THEN <<>>
  ELSE InsertSorted(Sorted(SubSeq(xs, 1, Len(xs) - 1), cmp), xs[Len(xs)], cmp)

\* Iterant.prototype.sort materializing the receiver before it looks at the
\* comparator.
Iterant_prototype_sort_DrainsFirst(M, this, comparator) ==
  Only({
    IF d.thrown # "" THEN Throw(d, d.thrown)
    ELSE IF comparator # Undef /\ comparator.t # "function"
    THEN Throw(d, "TypeError")
    ELSE Only({ IterantArray(A, Newest(A))
                : A \in {Alloc(d, NewArray(Sorted(d.items,
                     IF Truthy(comparator) THEN comparator
                     ELSE Fn("default"))))} })
    : d \in {Array_from(M, this)} })

\* Iterant.prototype.sort leaving the materialized items in source order.
Iterant_prototype_sort_Unsorted(M, this, comparator) ==
  IF comparator # Undef /\ comparator.t # "function"
  THEN Throw(M, "TypeError")
  ELSE Only({
         IF d.thrown # "" THEN Throw(d, d.thrown)
         ELSE Only({ IterantArray(A, Newest(A))
                     : A \in {Alloc(d, NewArray(d.items))} })
         : d \in {Array_from(M, this)} })

\* Iterant.prototype.sort                            src/iterant.js:405
Iterant_prototype_sort(M, this, comparator) ==
  IF comparator # Undef /\ comparator.t # "function"
  THEN Throw(M, "TypeError")
  ELSE LET cmp == IF Truthy(comparator) THEN comparator ELSE Fn("default")
       IN Only({
            IF d.thrown # "" THEN Throw(d, d.thrown)
            ELSE Only({ IterantArray(A, Newest(A))
                        : A \in {Alloc(d, NewArray(Sorted(d.items, cmp)))} })
            : d \in {Array_from(M, this)} })

(***************************************************************************)
(* The native Array.prototype methods IterantArray delegates to.           *)
(***************************************************************************)
\* ToIntegerOrInfinity of a slice bound: NaN (undefined, a non-numeric
\* string) is 0, a fraction is truncated towards zero.
ToInteger(x) ==
  CASE x.t = "number" /\ x.f = ""     -> x.v
    [] x.t = "number" /\ x.f = "half" -> IF x.v < 0 THEN x.v + 1 ELSE x.v
    [] OTHER                          -> 0

Clamp(rel, n) == IF rel < 0 THEN (IF n + rel < 0 THEN 0 ELSE n + rel)
                 ELSE (IF rel > n THEN n ELSE rel)

Array_slice(xs, begin, end) ==
  LET n     == Len(xs)
      from  == Clamp(ToInteger(begin), n)
      final == IF end = Undef THEN n ELSE Clamp(ToInteger(end), n)
  IN SubSeq(xs, from + 1, final)

\* callbackfn is called with (element, index, array).
RECURSIVE Array_map(_, _, _, _, _)
Array_map(M, xs, fct, i, acc) ==
  IF fct.t # "function"
  THEN [objs |-> M.objs, log |-> M.log, items |-> <<>>, thrown |-> "TypeError"]
  ELSE IF i > Len(xs)
  THEN [objs |-> M.objs, log |-> M.log, items |-> acc, thrown |-> ""]
  ELSE LET c == Call(M, fct, <<xs[i], Num(i - 1)>>) IN
       IF c.thrown # ""
       THEN [objs |-> c.objs, log |-> c.log, items |-> <<>>,
             thrown |-> c.thrown]
       ELSE Array_map(c, xs, fct, i + 1, Append(acc, c.value))

RECURSIVE Array_filter(_, _, _, _, _)
Array_filter(M, xs, fct, i, acc) ==
  IF fct.t # "function"
  THEN [objs |-> M.objs, log |-> M.log, items |-> <<>>, thrown |-> "TypeError"]
  ELSE IF i > Len(xs)
  THEN [objs |-> M.objs, log |-> M.log, items |-> acc, thrown |-> ""]
  ELSE LET c == Call(M, fct, <<xs[i], Num(i - 1)>>) IN
       IF c.thrown # ""
       THEN [objs |-> c.objs, log |-> c.log, items |-> <<>>,
             thrown |-> c.thrown]
       ELSE Array_filter(c, xs, fct, i + 1,
                         IF Truthy(c.value) THEN Append(acc, xs[i]) ELSE acc)

\* reduce(callbackfn) as if initialValue were absent whenever it is
\* undefined: the first element is the seed and an empty array a TypeError.
RECURSIVE Array_reduce_SeedsFromFirst(_, _, _, _, _)
Array_reduce_SeedsFromFirst(M, xs, fct, i, value) ==
  IF fct.t # "function" THEN Throw(M, "TypeError")
  ELSE IF i = 1 /\ value = Undef
  THEN IF xs = <<>> THEN Throw(M, "TypeError")
       ELSE Array_reduce_SeedsFromFirst(M, xs, fct, 2, xs[1])
  ELSE IF i > Len(xs) THEN Value(M, value)
  ELSE LET c == Call(M, fct, <<value, xs[i], Num(i - 1)>>) IN
       IF c.thrown # "" THEN Throw(c, c.thrown)
       ELSE Array_reduce_SeedsFromFirst(c, xs, fct, i + 1, c.value)

\* reduce(callbackfn, initialValue) with initialValue always passed.
RECURSIVE Array_reduce(_, _, _, _, _)
Array_reduce(M, xs, fct, i, value) ==
  IF fct.t # "function" THEN Throw(M, "TypeError")
  ELSE IF i > Len(xs) THEN Value(M, value)
  ELSE LET c == Call(M, fct, <<value, xs[i], Num(i - 1)>>) IN
       IF c.thrown # "" THEN Throw(c, c.thrown)
       ELSE Array_reduce(c, xs, fct, i + 1, c.value)

\* concat spreads its array arguments one level and appends the others.
RECURSIVE Array_concat(_, _, _)
Array_concat(h, xs, args) ==
  IF args = <<>> THEN xs
  ELSE Array_concat(h,
         IF KindOf(h, Head(args)) = "Array"
         THEN xs \o h[Head(args).v].items ELSE Append(xs, Head(args)),
         Tail(args))

(***************************************************************************)
(* IterantArray.prototype                       src/iterant-array.js:56-80 *)
(***************************************************************************)
ArrayOf(M, this) == M.objs[M.objs[this.v].iterable.v].items

WrapNewArray(M, xs) ==
  Only({ IterantArray(A, Newest(A)) : A \in {Alloc(M, NewArray(xs))} })

\* IterantArray.prototype.slice passing begin only.
IterantArray_prototype_slice_IgnoresEnd(M, this, begin, end) ==
  WrapNewArray(M, Array_slice(ArrayOf(M, this), begin, Undef))

IterantArray_prototype_slice(M, this, begin, end) ==
  WrapNewArray(M, Array_slice(ArrayOf(M, this), begin, end))

\* IterantArray.prototype.map that wraps a copy of the array and leaves the
\* mapper for later.
IterantArray_prototype_map_Deferred(M, this, mapper) ==
  WrapNewArray(M, ArrayOf(M, this))

IterantArray_prototype_map(M, this, mapper) ==
  Only({ IF r.thrown # "" THEN Throw(r, r.thrown)
         ELSE WrapNewArray(r, r.items)
         : r \in {Array_map(M, ArrayOf(M, this), mapper, 1, <<>>)} })

IterantArray_prototype_reduce(M, this, reducer, init) ==
  Array_reduce(M, ArrayOf(M, this), reducer, 1, init)

IterantArray_prototype_filter(M, this, predicate) ==
  Only({ IF r.thrown # "" THEN Throw(r, r.thrown)
         ELSE WrapNewArray(r, r.items)
         : r \in {Array_filter(M, ArrayOf(M, this), predicate, 1, <<>>)} })

IterantArray_prototype_concat(M, this, args) ==
  WrapNewArray(M, Array_concat(M.objs, ArrayOf(M, this), args))

\* Array.prototype.sort sorts the receiver's own array in place and returns
\* that same array.
IterantArray_prototype_sort(M, this, comparator) ==
  IF comparator # Undef /\ comparator.t # "function"
  THEN Throw(M, "TypeError")
  ELSE LET a == M.objs[this.v].iterable IN
       Only({ IterantArray(S, a)
              : S \in {[objs |-> [M.objs EXCEPT
                                    ![a.v].items = Sorted(@, comparator)],
                        log |-> M.log]} })

(***************************************************************************)
(* IterantSequence.prototype                 src/iterant-sequence.js:76-121 *)
(***************************************************************************)
\* fn.subsequence(seq, start [, length]): the items at the 1-based positions
\* p with start <= p, and p < start + length when a length is given.  The
\* invocation is logged.
fn_subsequence(M, seq, start, length) ==
  LET xs   == M.objs[seq.v].items
      to   == IF length = Undef \/ start + N(length) - 1 > Len(xs)
              THEN Len(xs) ELSE start + N(length) - 1
      A    == Alloc([objs |-> M.objs,
                     log  |-> Append(M.log, [f |-> "fn.subsequence",
                                             a |-> <<Num(start), length>>])],
                    NewSequence(SubSeq(xs, start, to)))
  IN Value(A, Newest(A))

Negative(x)   == x.v < 0
NonInteger(x) == x.f = "half"
Less(x, y)    == x.v < y.v \/ (x.v = y.v /\ x.f = "" /\ y.f = "half")

IterantSequence_prototype_slice(M, this, begin, end) ==
  LET it == M.objs[this.v].iterable IN
  IF begin = Undef THEN IterantSequence(M, it)
  ELSE IF begin.t # "number" \/ Negative(begin) \/ NonInteger(begin)
  THEN Throw(M, "TypeError")
  ELSE IF Truthy(end)
  THEN IF end.t # "number" \/ Negative(end) \/ NonInteger(end)
          \/ Less(end, begin)
       THEN Throw(M, "TypeError")
       ELSE LET s == fn_subsequence(M, it, begin.v + 1, Num(end.v - begin.v))
            IN IterantSequence(s, s.value)
  ELSE LET s == fn_subsequence(M, it, begin.v + 1, Undef)
       IN IterantSequence(s, s.value)

\* A sort that also leaves the receiver's sequence in the sorted order.
IterantSequence_prototype_sort_InPlace(M, this, comparator) ==
  Only({
    IF r.thrown # "" THEN r
    ELSE [r EXCEPT !.objs[M.objs[this.v].iterable.v].items =
                      r.objs[r.objs[r.value.v].iterable.v].items]
    : r \in {Iterant_prototype_sort(
               [objs |-> M.objs,
                log  |-> Append(M.log, [f |-> "console.warn", a |-> <<>>])],
               this, comparator)} })

IterantSequence_prototype_sort(M, this, comparator) ==
  Iterant_prototype_sort(
    [objs |-> M.objs,
     log  |-> Append(M.log, [f |-> "console.warn", a |-> <<>>])],
    this, comparator)


\* IterantSequence.prototype.concat             src/iterant-sequence.js:100
\* Sequence.from(item) takes the items of an iterable, new Sequence(item)
\* is the singleton sequence, and new Sequence(s0, s1, ...) appends them.
\* The conversion of concat's arguments with strings taken for iterables.
RECURSIVE SequenceOfAll_SpreadsStrings(_, _, _)
SequenceOfAll_SpreadsStrings(M, args, acc) ==
  IF args = <<>>
  THEN [objs |-> M.objs, log |-> M.log, items |-> acc, thrown |-> ""]
  ELSE IF isIterable(M.objs, Head(args), Undef)
  THEN Only({ IF d.thrown # "" THEN d
              ELSE SequenceOfAll_SpreadsStrings(d, Tail(args), acc \o d.items)
              : d \in {Array_from(M, Head(args))} })
  ELSE SequenceOfAll_SpreadsStrings(M, Tail(args), Append(acc, Head(args)))

RECURSIVE SequenceOfAll(_, _, _)
SequenceOfAll(M, args, acc) ==
  IF args = <<>>
  THEN [objs |-> M.objs, log |-> M.log, items |-> acc, thrown |-> ""]
  ELSE IF isIterable(M.objs, Head(args), Bool(TRUE))
  THEN Only({ IF d.thrown # "" THEN d
              ELSE SequenceOfAll(d, Tail(args), acc \o d.items)
              : d \in {Array_from(M, Head(args))} })
  ELSE SequenceOfAll(M, Tail(args), Append(acc, Head(args)))

IterantSequence_prototype_concat(M, this, args) ==
  LET it == M.objs[this.v].iterable IN
  IF Len(args) = 0 THEN IterantSequence(M, it)
  ELSE Only({
         IF r.thrown # "" THEN Throw(r, r.thrown)
         ELSE Only({ IterantSequence(A, Newest(A))
                     : A \in {Alloc(r, NewSequence(r.items))} })
         : r \in {SequenceOfAll(M, args, M.objs[it.v].items)} })

\* IterantSequence.prototype.xpath                   src/iterant-sequence.js:123
IterantSequence_prototype_xpath(M, this, path) ==
  IF path = Null \/ path.t = "undefined" THEN Throw(M, "TypeError")
  ELSE Only({ Iterant(G, G.value)
              : G \in {NewGenerator(M, "delegate", M.objs[this.v].iterable,
                                    Fn("xpath"), path, <<>>)} })

(***************************************************************************)
(* Method lookup along the prototype chain: IterantArray overrides slice,  *)
(* map, reduce, filter, concat and sort; IterantSequence overrides slice,  *)
(* concat and sort; everything else is inherited from Iterant.prototype.   *)
(***************************************************************************)
Method_map(M, this, fct) ==
  IF KindOf(M.objs, this) = "IterantArray"
  THEN IterantArray_prototype_map(M, this, fct)
  ELSE Iterant_prototype_map(M, this, fct)

Method_filter(M, this, predicate) ==
  IF KindOf(M.objs, this) = "IterantArray"
  THEN IterantArray_prototype_filter(M, this, predicate)
  ELSE Iterant_prototype_filter(M, this, predicate)

Method_reduce(M, this, reducer, init) ==
  IF KindOf(M.objs, this) = "IterantArray"
  THEN IterantArray_prototype_reduce(M, this, reducer, init)
  ELSE Iterant_prototype_reduce(M, this, reducer, init)

Method_slice(M, this, begin, end) ==
  CASE KindOf(M.objs, this) = "IterantArray" ->
         IterantArray_prototype_slice(M, this, begin, end)
    [] KindOf(M.objs, this) = "IterantSequence" ->
         IterantSequence_prototype_slice(M, this, begin, end)
    [] OTHER -> Iterant_prototype_slice(M, this, begin, end)

Method_concat(M, this, items) ==
  CASE KindOf(M.objs, this) = "IterantArray" ->
         IterantArray_prototype_concat(M, this, items)
    [] KindOf(M.objs, this) = "IterantSequence" ->
         IterantSequence_prototype_concat(M, this, items)
    [] OTHER -> Iterant_prototype_concat(M, this, items)

Method_sort(M, this, comparator) ==
  CASE KindOf(M.objs, this) = "IterantArray" ->
         IterantArray_prototype_sort(M, this, comparator)
    [] KindOf(M.objs, this) = "IterantSequence" ->
         IterantSequence_prototype_sort(M, this, comparator)
    [] OTHER -> Iterant_prototype_sort(M, this, comparator)

(***************************************************************************)
(* The client.  It holds a source or a wrapper it has constructed (Init),  *)
(* makes one call of a factory, a static operation or a chain method, with *)
(* arguments drawn from the sets below, and consumes the iterables it      *)
(* holds (toArray, Array.from) at any time, any number of times.           *)
(***************************************************************************)
Ascending(n)  == [i \in 1..n |-> Num(i)]
Descending(n) == [i \in 1..n |-> Num(n + 1 - i)]
\* Numbers whose order as strings ("1", "10", "9") is not their numeric order.
Mixed == <<Num(10), Num(9), Num(1)>>
Inputs == {Ascending(n) : n \in 0..MaxLen}
            \cup {Descending(n) : n \in 0..MaxLen} \cup {Mixed}

\* Sequences of query results: nodes, with a value that has no xpath, a
\* null or an undefined among them.
Trees == {<<Node(2), Num(4), Node(1)>>, <<Node(1), Null, Node(2)>>,
          <<Undef, Node(1)>>}

Empty == [objs |-> <<>>, log |-> <<>>]

\* What the client has constructed before the first state: a bare array or
\* sequence; a wrapper of each class on it; a generic wrapper on a generator
\* object over an array (a plain `yield*` generator), on a sequence wrapper,
\* or on a value that is not iterable; a generic wrapper on a generator
\* object together with the wrapper its filter(odd) returned; and a sequence
\* wrapper beside an array that holds an array ([7, xs], as ['g', 'h', ['i']]
\* in the concat test); and the stage Iterant.map(array, inc), to be the
\* upstream of what the client builds next.
OnArray(xs)    == Alloc(Empty, NewArray(xs))
OnSequence(xs) == Alloc(Empty, NewSequence(xs))
OnGenerator(xs) ==
  NewGenerator(OnArray(xs), "slice", Ref(1), Undef, Undef, <<>>)

OnNested(xs) ==
  Alloc(Alloc(Alloc(Empty, NewArray(<<Num(7), Ref(2)>>)), NewArray(xs)),
        NewSequence(xs))

\* A generator object that never completes, to be wrapped.
Endless == NewGenerator(Empty, "naturals", Undef, Undef, Undef, <<>>)

Built(xs) ==
  { OnArray(xs).objs,
    OnSequence(xs).objs,
    Iterant(OnArray(xs), Ref(1)).objs,
    IterantArray(OnArray(xs), Ref(1)).objs,
    Iterant(OnSequence(xs), Ref(1)).objs,
    IterantSequence(OnSequence(xs), Ref(1)).objs,
    Iterant(OnGenerator(xs), Ref(2)).objs,
    Iterant(IterantSequence(OnSequence(xs), Ref(1)), Ref(2)).objs,
    Iterant(Empty, Num(4)).objs,
    Iterant(Empty, Undef).objs,
    Iterant_prototype_filter(Iterant(OnGenerator(xs), Ref(2)), Ref(3),
                             Fn("odd")).objs,
    IterantSequence(OnNested(xs), Ref(3)).objs,
    NewGenerator(OnArray(xs), "map", Ref(1), Fn("inc"), Undef, <<>>).objs }

Refs       == {Ref(i) : i \in 1..Len(objs)}
Wrappers   == {w \in Refs : IsWrapper(objs, w)}
Scalars    == {Undef, Num(4)}
Iterables  == Refs \cup Scalars
Mappers    == {Fn("inc"), Fn("dbl"), Fn("boom"), Num(4)}
Predicates == {Fn("odd"), Fn("evenIdx"), Num(4)}
Reducers   == {Fn("add"), Fn("lin"), Fn("wsum"), Num(4)}
Inits      == {Num(0), Undef}
Comparators == {Undef, Fn("asc"), Fn("desc"), Num(4)}
Indices    == {Num(i) : i \in 0..MaxLen}
Odd        == {Undef, Num(-1), Frac(1), Str("a")}
Bounds     == (Indices \X (Indices \cup Odd)) \cup (Odd \X {Undef, Num(1)})
\* The bounds passed to the generator function Iterant.slice itself: every
\* begin, with no end, the end 0, the end just after begin and the end
\* MaxLen, and the invalid ones.
StaticBounds ==
  {b \in Indices \X (Indices \cup {Undef}) :
     b[2] = Undef \/ b[2].v \in {0, b[1].v + 1, MaxLen}}
    \cup {<<Undef, Undef>>, <<Str("a"), Undef>>, <<Num(0), Num(-1)>>,
          <<Num(0), Frac(1)>>}
\* What isIterable is asked about, and with which ignoreStrings.
Values     == {Null, Undef, NaN, Frac(44), Num(4), Bool(TRUE), ErrorObject,
               Str("ab"), Str("")}
Flags      == {Undef, Bool(TRUE), Bool(FALSE), Num(1)}
Paths      == {Null, Undef, Str("a"), Str("b")}
ConcatArgs == {<<>>, <<Num(4)>>, <<Ref(1)>>, <<Str("ab")>>,
               <<Num(4), Ref(1)>>, <<Num(4), Num(5), Ref(1)>>}

Start == [objs |-> objs, log |-> <<>>]

NoCall == [op |-> "", this |-> Undef, a1 |-> Undef, a2 |-> Undef,
           args |-> <<>>, h |-> <<>>]

\* The call `op` was made and ended as R; items is what it materialised.
\* A call that does not terminate is the client's last: it never gets to
\* make another, and sees nothing of what the call did.
Finish(op, this, a1, a2, args, R, items) ==
  \E r \in {R} :
    /\ err # "nontermination"
    /\ objs' = IF r.thrown = "nontermination" THEN objs ELSE r.objs
    /\ log'  = IF r.thrown = "nontermination" THEN <<>> ELSE r.log
    /\ err'  = r.thrown
    /\ ret'  = IF r.thrown = "" THEN r.value ELSE Undef
    /\ out'  = IF r.thrown = "" THEN items ELSE <<>>
    /\ last' = [op |-> op, this |-> this, a1 |-> a1, a2 |-> a2,
                args |-> args, h |-> objs]

\* The client's one call of the library.
Once == ~called /\ called' = TRUE

Init ==
  /\ \/ \E xs \in Inputs : objs \in Built(xs)
     \/ \E ys \in Trees :
          objs = IterantSequence(OnSequence(ys), Ref(1)).objs
     \/ objs = Iterant(Endless, Ref(1)).objs
  /\ ret = Undef
  /\ out = <<>>
  /\ err = ""
  /\ log = <<>>
  /\ last = NoCall
  /\ called = FALSE

Factory ==
  /\ Once
  /\ \E C \in WrapperKinds, x \in Iterables :
       Finish(C, x, Undef, Undef, <<>>, Construct(Start, C, x), <<>>)

StaticMap ==
  /\ Once
  /\ \E x \in Iterables, fct \in Mappers :
       Finish("Iterant.map", x, fct, Undef, <<>>,
              NewGenerator(Start, "map", x, fct, Undef, <<>>), <<>>)

StaticFilter ==
  /\ Once
  /\ \E x \in Iterables, predicate \in Predicates :
       Finish("Iterant.filter", x, predicate, Undef, <<>>,
              NewGenerator(Start, "filter", x, predicate, Undef, <<>>), <<>>)

StaticSlice ==
  /\ Once
  /\ \E x \in Iterables, b \in StaticBounds :
       Finish("Iterant.slice", x, b[1], b[2], <<>>,
              NewGenerator(Start, "slice", x, b[1], b[2], <<>>), <<>>)

StaticConcat ==
  /\ Once
  /\ \E x \in Iterables, args \in ConcatArgs :
       Finish("Iterant.concat", x, Undef, Undef, args,
              NewGenerator(Start, "concat", x, Undef, Undef, args), <<>>)

StaticReduce ==
  /\ Once
  /\ \E x \in Iterables, fct \in Reducers, init \in Inits :
       Finish("Iterant.reduce", x, fct, init, <<>>,
              Iterant_reduce(Start, x, fct, init), <<>>)

CallMap ==
  /\ Once
  /\ \E w \in Wrappers, fct \in Mappers :
       Finish("map", w, fct, Undef, <<>>, Method_map(Start, w, fct), <<>>)

CallFilter ==
  /\ Once
  /\ \E w \in Wrappers, predicate \in Predicates :
       Finish("filter", w, predicate, Undef, <<>>,
              Method_filter(Start, w, predicate), <<>>)

CallSlice ==
  /\ Once
  /\ \E w \in Wrappers, b \in Bounds :
       Finish("slice", w, b[1], b[2], <<>>,
              Method_slice(Start, w, b[1], b[2]), <<>>)

CallConcat ==
  /\ Once
  /\ \E w \in Wrappers, args \in ConcatArgs :
       Finish("concat", w, Undef, Undef, args, Method_concat(Start, w, args),
              <<>>)

CallSort ==
  /\ Once
  /\ \E w \in Wrappers, comparator \in Comparators :
       Finish("sort", w, comparator, Undef, <<>>,
              Method_sort(Start, w, comparator), <<>>)

CallReduce ==
  /\ Once
  /\ \E w \in Wrappers, reducer \in Reducers, init \in Inits :
       Finish("reduce", w, reducer, init, <<>>,
              Method_reduce(Start, w, reducer, init), <<>>)

StaticIsIterable ==
  /\ Once
  /\ \E obj \in Values \cup Refs, ignoreStrings \in Flags :
       Finish("Iterant.isIterable", obj, ignoreStrings, Undef, <<>>,
              Value(Start, Bool(isIterable(objs, obj, ignoreStrings))), <<>>)

CallClone ==
  /\ Once
  /\ \E w \in Wrappers :
       Finish("clone", w, Undef, Undef, <<>>,
              Iterant_prototype_clone(Start, w), <<>>)

\* xpath exists on IterantSequence.prototype only.
CallXPath ==
  /\ Once
  /\ \E w \in {x \in Wrappers : KindOf(objs, x) = "IterantSequence"},
        path \in Paths :
       Finish("xpath", w, path, Undef, <<>>,
              IterantSequence_prototype_xpath(Start, w, path), <<>>)

CallToArray ==
  /\ UNCHANGED called
  /\ \E w \in Wrappers :
     \E d \in {Iterant_prototype_toArray(Start, w)} :
       Finish("toArray", w, Undef, Undef, <<>>,
              [objs |-> d.objs, log |-> d.log, thrown |-> d.thrown,
               value |-> Undef], d.items)

\* Array.from(x) on an object the client holds.
ArrayFrom ==
  /\ UNCHANGED called
  /\ \E x \in {r \in Refs : KindOf(objs, r) = "Generator"} :
     \E d \in {Array_from(Start, x)} :
       Finish("Array.from", x, Undef, Undef, <<>>,
              [objs |-> d.objs, log |-> d.log, thrown |-> d.thrown,
               value |-> Undef], d.items)

\* x.next() on the generator object the call of the library returned, or
\* on the `iterable` of the wrapper it returned: one request for an item.
\* The client makes its requests before anything else, until the generator
\* has completed or has received MaxLen + 2 items.  out is the item obtained, if any; ret stays the
\* result of the call.
CallNext ==
  /\ called
  /\ UNCHANGED called
  /\ \E x \in {r \in {ret, Resolve(objs, ret)} :
                  /\ KindOf(objs, r) = "Generator"
                  /\ objs[r.v].state # "completed"
                  /\ objs[r.v].pos <= MaxLen + 1} :
     \E d \in {GeneratorResume(Start, x.v)} :
       Finish("next", x, Undef, Undef, <<>>,
              [objs |-> d.objs, log |-> d.log, thrown |-> d.thrown,
               value |-> ret],
              IF d.done THEN <<>> ELSE <<d.value>>)

Next ==
  \/ Factory
  \/ StaticIsIterable
  \/ StaticMap \/ StaticFilter \/ StaticSlice \/ StaticConcat \/ StaticReduce
  \/ CallMap \/ CallFilter \/ CallSlice \/ CallConcat \/ CallSort
  \/ CallReduce \/ CallClone \/ CallXPath \/ CallToArray
  \/ ArrayFrom \/ CallNext

Spec == Init /\ [][Next]_vars


(***************************************************************************)
(* Vocabulary of the properties.                                           *)
(***************************************************************************)
\* What iterating x to the end yields in heap h, and whether that iteration
\* ends without an exception.
ItemsOf(h, x)  == Array_from([objs |-> h, log |-> <<>>], x).items
Iterates(h, x) == Array_from([objs |-> h, log |-> <<>>], x).thrown = ""

\* The last call drained a generator object that had not been started: the
\* client called Array.from on it, or toArray on a wrapper of it.
Drained == Resolve(last.h, last.this)

DrainedFresh(fn) ==
  /\ last.op \in {"Array.from", "toArray"}
  /\ KindOf(last.h, Drained) = "Generator"
  /\ last.h[Drained.v].fn = fn
  /\ last.h[Drained.v].state = "suspendedStart"

\* The generator drained, and the items its source had to give.
Stage  == last.h[Drained.v]
Source == ItemsOf(last.h, Stage.iterable)

Min(a, b) == IF a < b THEN a ELSE b

\* The invocations of the callback named f during the last call, in order.
\* (Stages upstream of the one observed log the calls of their own callbacks.)
CallsOf(f) == SelectSeq(log, LAMBDA e : e.f = f)

\* C1: draining the generic Iterant.slice(s, begin, end), for numbers
\* 0 <= begin <= end, yields exactly the items of s at the zero-based
\* positions begin..end-1, in order, and no item at a position >= end.
C1_SliceIsHalfOpen ==
  (/\ DrainedFresh("slice")
   /\ IsInt(Stage.p1) /\ IsInt(Stage.p2)
   /\ 0 <= Stage.p1.v /\ Stage.p1.v <= Stage.p2.v
   /\ Iterates(last.h, Stage.iterable))
  => /\ err = ""
     /\ out = SubSeq(Source, Stage.p1.v + 1, Min(Stage.p2.v, Len(Source)))

\* What the code does instead: the item at position `end` is yielded too.
C1_SliceYieldsEndItem ==
  (/\ DrainedFresh("slice")
   /\ IsInt(Stage.p1) /\ IsInt(Stage.p2)
   /\ 0 <= Stage.p1.v /\ Stage.p1.v <= Stage.p2.v
   /\ Iterates(last.h, Stage.iterable))
  => /\ err = ""
     /\ out = SubSeq(Source, Stage.p1.v + 1, Min(Stage.p2.v + 1, Len(Source)))


\* The receiver of the last call, as it was when the call was made.
Receiver     == last.h[last.this.v]
ReceiverKind == KindOf(last.h, last.this)

\* C2: calling a chain method (slice, map, filter, concat, sort, reduce) on
\* an array-backed wrapper leaves the items the wrapper yields unchanged:
\* toArray() after the call equals toArray() before it.
C2_ChainCallKeepsReceiverItems ==
  (/\ last.op \in {"slice", "map", "filter", "concat", "sort", "reduce"}
   /\ KindOf(last.h, Resolve(last.h, last.this)) = "Array")
  => ItemsOf(objs, last.this) = ItemsOf(last.h, last.this)

\* The items generic concat is to yield for its trailing arguments.
RECURSIVE Flattened(_, _)
Flattened(h, args) ==
  IF args = <<>> THEN <<>>
  ELSE (IF isIterable(h, Head(args), Undef) THEN ItemsOf(h, Head(args))
        ELSE <<Head(args)>>) \o Flattened(h, Tail(args))

\* C3: draining the generic concat(source, ...items) yields, without
\* raising, the items of source and then, for each argument in order, its
\* items when it is iterable and the argument itself otherwise.
C3_ConcatAppendsEveryArgument ==
  (/\ DrainedFresh("concat")
   /\ Iterates(last.h, Stage.iterable)
   /\ \A i \in 1..Len(Stage.args) :
        isIterable(last.h, Stage.args[i], Undef)
          => Iterates(last.h, Stage.args[i]))
  => /\ err = ""
     /\ out = Source \o Flattened(last.h, Stage.args)

\* The arguments of the last call are valid for the generic chain method.
ValidArguments ==
  CASE last.op \in {"map", "filter", "Iterant.map", "Iterant.filter"} ->
         last.a1.t = "function"
    [] last.op \in {"slice", "Iterant.slice"} ->
         last.a1.t \in {"undefined", "number"}
    [] OTHER -> TRUE

\* C4: map, filter, slice and concat, called with valid arguments on a
\* Generic wrapper, return without raising a new wrapper whose class is the
\* one the species marker of the receiver's source declares, and Iterant
\* when the source declares none.
C4_ChainReturnsSpeciesWrapper ==
  (/\ last.op \in {"map", "filter", "slice", "concat"}
   /\ ReceiverKind = "Iterant"
   /\ isIterable(last.h, Receiver.iterable, Undef)
   /\ ValidArguments)
  => /\ err = ""
     /\ ret.v > Len(last.h)
     /\ KindOf(objs, ret) =
          (IF Species(last.h, Receiver.iterable) = "" THEN "Iterant"
           ELSE Species(last.h, Receiver.iterable))

\* C5: the generic map, filter and slice, static or called on a Generic
\* wrapper, validate their arguments during the call: a source that is not iterable, a transform or predicate that is
\* not a function, a begin that is given and is not a number raise
\* TypeError from the chain method itself, and no wrapper is returned.
C5_ValidationIsSynchronous ==
  (\/ /\ last.op \in {"Iterant.map", "Iterant.filter", "Iterant.slice"}
      /\ (~isIterable(last.h, last.this, Undef) \/ ~ValidArguments)
   \/ /\ last.op \in {"map", "filter", "slice"}
      /\ ReceiverKind = "Iterant"
      /\ (~isIterable(last.h, Receiver.iterable, Undef) \/ ~ValidArguments))
  => err = "TypeError" /\ ret = Undef

\* C6: slice(begin, end) of a sequence wrapper, for integers
\* 0 <= begin <= end (end = 0 included), invokes fn.subsequence with start
\* begin + 1 and length end - begin and yields the items at the positions
\* begin..min(end, n)-1; with end omitted it passes the start only and
\* yields the positions begin..n-1.
C6_SequenceSliceWindow ==
  (/\ last.op = "slice"
   /\ ReceiverKind = "IterantSequence"
   /\ IsInt(last.a1) /\ last.a1.v >= 0
   /\ (last.a2 = Undef \/ (IsInt(last.a2) /\ last.a2.v >= last.a1.v)))
  => LET src == ItemsOf(last.h, last.this) IN
     /\ err = ""
     /\ log = <<[f |-> "fn.subsequence",
                 a |-> <<Num(last.a1.v + 1),
                         IF last.a2 = Undef THEN Undef
                         ELSE Num(last.a2.v - last.a1.v)>>]>>
     /\ ItemsOf(objs, ret) =
          SubSeq(src, last.a1.v + 1,
                 IF last.a2 = Undef THEN Len(src)
                 ELSE Min(last.a2.v, Len(src)))

NonNegInt(x) == IsInt(x) /\ x.v >= 0

\* C7: slice(begin, end) of a sequence wrapper raises TypeError, without
\* invoking fn.subsequence and leaving the heap as it was, when begin is
\* given and is not a non-negative integer, or end is given (0 included) and
\* is not a non-negative integer >= begin.
C7_SequenceSliceRejectsBadBounds ==
  (/\ last.op = "slice"
   /\ ReceiverKind = "IterantSequence"
   /\ \/ (last.a1 # Undef /\ ~NonNegInt(last.a1))
      \/ (last.a2 # Undef /\ ~NonNegInt(last.a2))
      \/ (last.a2 # Undef /\ NonNegInt(last.a1) /\ NonNegInt(last.a2)
            /\ last.a2.v < last.a1.v))
  => err = "TypeError" /\ log = <<>> /\ objs = last.h

\* C8: draining Iterant.map(s, fn), for an iterable s and a function fn,
\* yields as many items as s, the i-th being fn(the i-th item of s).
C8_MapIsElementwise ==
  (/\ DrainedFresh("map")
   /\ Stage.p1.t = "function"
   /\ ~Throws(Stage.p1.f)
   /\ Iterates(last.h, Stage.iterable))
  => /\ err = ""
     /\ Len(out) = Len(Source)
     /\ \A i \in 1..Len(Source) : out[i] = Apply(Stage.p1.f, <<Source[i]>>)

C8_Witness ==
  /\ DrainedFresh("map")
  /\ Stage.p1 = Fn("dbl")
  /\ Len(Source) >= 2
  /\ out = [i \in 1..Len(Source) |-> Num(2 * Source[i].v)]

\* The predicate's verdicts on the items of s, with the index it is to get.
RECURSIVE Kept(_, _, _)
Kept(p, xs, i) ==
  IF i > Len(xs) THEN <<>>
  ELSE (IF Truthy(Apply(p, <<xs[i], Num(i - 1)>>)) THEN <<xs[i]>> ELSE <<>>)
         \o Kept(p, xs, i + 1)

\* C9: draining Iterant.filter(s, p) yields exactly the items of s for
\* which p was truthy, in their order; p is invoked once per item of s, with
\* the indices 0, 1, 2, ... counting the items considered.
C9_FilterKeepsByPredicate ==
  (/\ DrainedFresh("filter")
   /\ Stage.p1.t = "function"
   /\ Iterates(last.h, Stage.iterable))
  => /\ err = ""
     /\ out = Kept(Stage.p1.f, Source, 1)
     /\ (\A g \in 1..Len(last.h) : g # Drained.v => last.h[g].p1 # Stage.p1)
          => CallsOf(Stage.p1.f) =
               [i \in 1..Len(Source) |->
                  [f |-> Stage.p1.f, a |-> <<Source[i], Num(i - 1)>>]]

C9_Witness ==
  /\ DrainedFresh("filter")
  /\ Stage.p1 = Fn("evenIdx")
  /\ Len(Source) >= 3
  /\ out = <<Source[1], Source[3]>> \o
           (IF Len(Source) >= 5 THEN <<Source[5]>> ELSE <<>>)
  /\ Len(CallsOf("evenIdx")) = Len(Source)

\* The left fold of f over xs from acc, the i-th call getting index i - 1.
RECURSIVE FoldLeft(_, _, _, _)
FoldLeft(f, xs, acc, i) ==
  IF i > Len(xs) THEN acc
  ELSE FoldLeft(f, xs, Apply(f, <<acc, xs[i], Num(i - 1)>>), i + 1)

RECURSIVE FoldCalls(_, _, _, _)
FoldCalls(f, xs, acc, i) ==
  IF i > Len(xs) THEN <<>>
  ELSE <<[f |-> f, a |-> <<acc, xs[i], Num(i - 1)>>]>>
         \o FoldCalls(f, xs, Apply(f, <<acc, xs[i], Num(i - 1)>>), i + 1)

\* C10: reduce(s, fn, init) returns the left fold of fn over the items of
\* s from init, calling fn once per item, left to right, with the indices
\* 0, 1, 2, ...; it returns init for an empty s, and 6 for [1,2,3], addition
\* and 0.
C10_ReduceIsLeftFold ==
  (/\ last.op \in {"reduce", "Iterant.reduce"}
   /\ last.a1.t = "function"
   /\ isIterable(last.h, last.this, Undef)
   /\ Iterates(last.h, last.this))
  => LET src == ItemsOf(last.h, last.this) IN
     /\ err = ""
     /\ ret = FoldLeft(last.a1.f, src, last.a2, 1)
     /\ CallsOf(last.a1.f) = FoldCalls(last.a1.f, src, last.a2, 1)
     /\ (src = <<>> => ret = last.a2)
     /\ (src = <<Num(1), Num(2), Num(3)>> /\ last.a1 = Fn("add")
           /\ last.a2 = Num(0) => ret = Num(6))

C10_Witness ==
  /\ last.op \in {"reduce", "Iterant.reduce"}
  /\ ReceiverKind # "IterantArray"
  /\ ItemsOf(last.h, last.this) = <<Num(1), Num(2), Num(3)>>
  /\ last.a1 = Fn("add") /\ last.a2 = Num(0)
  /\ ret = Num(6)
  /\ Len(log) = 3


\* b holds the elements of a, each as many times.
IsPermutation(a, b) ==
  /\ Len(a) = Len(b)
  /\ \A i \in 1..Len(a) :
       Cardinality({j \in 1..Len(a) : a[j] = a[i]})
         = Cardinality({j \in 1..Len(b) : b[j] = a[i]})

\* xs is in the order of the comparator cmp (undefined: the default one).
InOrder(xs, cmp) ==
  \A i \in 1..(Len(xs) - 1) :
    Compare(IF cmp = Undef THEN Fn("default") ELSE cmp, xs[i], xs[i + 1]) <= 0

\* The last call was sort on a wrapper whose items can be iterated.
SortCalled ==
  /\ last.op = "sort"
  /\ IsWrapper(last.h, last.this)
  /\ Iterates(last.h, last.this)

\* C11: sort(comparator?), with the comparator undefined or a function, on
\* a wrapper of any class returns a new wrapper, distinct from the receiver,
\* of class IterantArray, whose items are a permutation of the receiver's
\* items in the order of the comparator.
C11_SortReturnsSortedArrayWrapper ==
  (SortCalled /\ (last.a1 = Undef \/ last.a1.t = "function"))
  => /\ err = ""
     /\ ret # last.this
     /\ ret.v > Len(last.h)
     /\ KindOf(objs, ret) = "IterantArray"
     /\ IsPermutation(ItemsOf(last.h, last.this), ItemsOf(objs, ret))
     /\ InOrder(ItemsOf(objs, ret), last.a1)

C11_Witness ==
  /\ SortCalled
  /\ ReceiverKind = "Iterant"
  /\ last.a1 = Fn("asc")
  /\ ItemsOf(last.h, last.this) = <<Num(3), Num(2), Num(1)>>
  /\ ItemsOf(objs, ret) = <<Num(1), Num(2), Num(3)>>

\* C12: Iterant.prototype.sort without a comparator orders the items by
\* their string forms, non-decreasing (numbers as strings, not numerically),
\* the default comparator being 0 for equal strings, -1 for a smaller first
\* string and 1 otherwise; with a comparator that is given and is not a
\* function it raises TypeError and materializes nothing.
C12_DefaultSortIsByString ==
  (last.op = "sort" /\ ReceiverKind \in {"Iterant", "IterantSequence"})
  => /\ (last.a1 = Undef /\ Iterates(last.h, last.this))
          => LET xs == ItemsOf(objs, ret) IN
             /\ err = ""
             /\ \A i \in 1..(Len(xs) - 1) :
                  ~StrLess(StringOf(xs[i + 1]), StringOf(xs[i]))
             /\ \A i, j \in 1..Len(xs) :
                  defaultComparator(xs[i], xs[j]) =
                    (IF StringOf(xs[i]) = StringOf(xs[j]) THEN 0
                     ELSE IF StrLess(StringOf(xs[i]), StringOf(xs[j]))
                     THEN -1 ELSE 1)
     /\ (last.a1 # Undef /\ last.a1.t # "function")
          => err = "TypeError" /\ objs = last.h /\ ret = Undef

C12_Witness ==
  /\ last.op = "sort"
  /\ ReceiverKind = "Iterant"
  /\ last.a1 = Undef
  /\ ItemsOf(last.h, last.this) = <<Num(10), Num(9), Num(1)>>
  /\ ItemsOf(objs, ret) = <<Num(1), Num(10), Num(9)>>

\* C13: every chain operation (slice, map, filter, concat, sort) that
\* returns, on a wrapper of any class, returns a wrapper distinct from the
\* receiver whose source is a newly constructed object, not the receiver's
\* source; and no operation reassigns the source of an existing wrapper.
C13_ChainResultHasFreshSource ==
  /\ (/\ last.op \in {"slice", "map", "filter", "concat", "sort"}
      /\ IsWrapper(last.h, last.this)
      /\ err = "")
     => /\ IsWrapper(objs, ret)
        /\ ret # last.this
        /\ objs[ret.v].iterable # Receiver.iterable
        /\ objs[ret.v].iterable.v > Len(last.h)
  /\ \A i \in 1..Len(last.h) :
       IsWrapper(last.h, Ref(i)) => objs[i].iterable = last.h[i].iterable

\* The generator objects of heap h.
Generators(h) == {g \in 1..Len(h) : h[g].kind = "Generator"}

\* The wrappers of heap h whose source is the object x.
WrappedIn(h, x) ==
  {w \in 1..Len(h) : IsWrapper(h, Ref(w)) /\ h[w].iterable = x}

\* C14: wrappers obtained by chain calls on the same wrapper do not share
\* a mutable source: draining one of them, c, leaves the items every other
\* one, b, made from the source of the same wrapper yields as they were.
C14_SiblingsDoNotInterfere ==
  (/\ last.op \in {"toArray", "Array.from"}
   /\ KindOf(last.h, Drained) = "Generator"
   /\ WrappedIn(last.h, Drained) # {})
  => \A b \in Generators(last.h) :
       (/\ b # Drained.v
        /\ last.h[b].iterable = last.h[Drained.v].iterable
        /\ WrappedIn(last.h, Ref(b)) # {}
        /\ WrappedIn(last.h, last.h[b].iterable) # {})
         => ItemsOf(objs, Ref(b)) = ItemsOf(last.h, Ref(b))

\* What the same call makes of a new IterantArray on the receiver's array.
OnIterantArray ==
  LET W == IterantArray([objs |-> last.h, log |-> <<>>], Receiver.iterable)
  IN CASE last.op = "slice"  -> Method_slice(W, W.value, last.a1, last.a2)
       [] last.op = "concat" -> Method_concat(W, W.value, last.args)
       [] last.op = "map"    -> Method_map(W, W.value, last.a1)
       [] last.op = "filter" -> Method_filter(W, W.value, last.a1)
       [] last.op = "reduce" ->
            Method_reduce(W, W.value, last.a1, last.a2)

\* The arguments C15 is about: slice bounds 0 <= begin <= end, a function
\* for map, filter and reduce, numbers and arrays for concat.
ComparableArguments ==
  CASE last.op = "slice" ->
         IsInt(last.a1) /\ IsInt(last.a2) /\ 0 <= last.a1.v
           /\ last.a1.v <= last.a2.v
    [] last.op = "concat" ->
         \A i \in 1..Len(last.args) :
           IsInt(last.args[i]) \/ KindOf(last.h, last.args[i]) = "Array"
    [] OTHER -> last.a1.t = "function"

\* C15: for an array arr and the same valid arguments, slice, concat, map
\* and filter on Iterant(arr) yield the items they yield on
\* IterantArray(arr), and reduce returns the same value.
C15_GenericEqualsArrayBacked ==
  (/\ last.op \in {"slice", "concat", "map", "filter", "reduce"}
   /\ ReceiverKind = "Iterant"
   /\ KindOf(last.h, Receiver.iterable) = "Array"
   /\ ComparableArguments)
  => /\ err = ""
     /\ OnIterantArray.thrown = ""
     /\ IF last.op = "reduce" THEN ret = OnIterantArray.value
        ELSE /\ Iterates(objs, ret)
             /\ ItemsOf(objs, ret)
                  = ItemsOf(OnIterantArray.objs, OnIterantArray.value)

\* The kind of source the specialized factory C requires.
RequiredKind(C) == IF C = "IterantArray" THEN "Array" ELSE "Sequence"

\* C16: IterantArray(x) and IterantSequence(x) return a wrapper only for a
\* source of the required kind, an array or a sequence: for every other x
\* they raise TypeError and create nothing.  The wrapper returned wraps x and
\* is an instance of the factory's class and of Iterant.
C16_SpecializedFactoriesCheckSource ==
  (last.op \in {"IterantArray", "IterantSequence"})
  => IF KindOf(last.h, last.this) = RequiredKind(last.op)
     THEN /\ err = ""
          /\ ret.v > Len(last.h)
          /\ objs[ret.v].iterable = last.this
          /\ InstanceOf(objs, ret, last.op)
          /\ InstanceOf(objs, ret, "Iterant")
     ELSE err = "TypeError" /\ ret = Undef /\ objs = last.h

C16_Witness ==
  /\ last.op = "IterantArray"
  /\ KindOf(last.h, last.this) \in {"Sequence", "Generator", "Iterant", ""}
  /\ err = "TypeError"
  /\ objs = last.h

\* Array.prototype.slice, stated by positions: a negative bound counts from
\* the end, and both bounds are clipped to 0..n.
FromEnd(k, n) == IF k < 0 THEN (IF n + k < 0 THEN 0 ELSE n + k) ELSE Min(k, n)

NativeSlice(arr, begin, end) ==
  LET n    == Len(arr)
      from == IF begin = Undef THEN 0 ELSE FromEnd(begin.v, n)
      to   == IF end = Undef THEN n ELSE FromEnd(end.v, n)
  IN [i \in 1..(IF to > from THEN to - from ELSE 0) |-> arr[from + i]]

\* Array.prototype.concat: an array argument contributes its elements, any
\* other argument itself.
RECURSIVE NativeConcat(_, _, _)
NativeConcat(h, arr, args) ==
  IF args = <<>> THEN arr
  ELSE NativeConcat(h,
         arr \o (IF KindOf(h, Head(args)) = "Array"
                 THEN h[Head(args).v].items ELSE <<Head(args)>>),
         Tail(args))

\* The array the receiver of the last call wraps, before the call.
ReceiverArray == last.h[Receiver.iterable.v].items

\* C17: on an IterantArray over arr, slice, map, filter and concat return
\* a new IterantArray whose items are those of the native array operation
\* on arr with the same arguments: slice(begin, end) is arr.slice(begin, end),
\* negative bounds included, and concat flattens array arguments one level
\* and appends the others ([1,2,3] with 4, 5, [6,7] gives 1..7).
C17_ArrayBackedUsesNativeOperation ==
  (/\ last.op \in {"slice", "map", "filter", "concat"}
   /\ ReceiverKind = "IterantArray"
   /\ last.op = "slice"
        => (last.a1 = Undef \/ IsInt(last.a1))
             /\ (last.a2 = Undef \/ IsInt(last.a2))
   /\ last.op \in {"map", "filter"}
        => last.a1.t = "function" /\ ~Throws(last.a1.f))
  => /\ err = ""
     /\ ret.v > Len(last.h)
     /\ KindOf(objs, ret) = "IterantArray"
     /\ ItemsOf(objs, ret) =
          CASE last.op = "slice" ->
                 NativeSlice(ReceiverArray, last.a1, last.a2)
            [] last.op = "map" ->
                 [i \in 1..Len(ReceiverArray) |->
                    Apply(last.a1.f, <<ReceiverArray[i], Num(i - 1)>>)]
            [] last.op = "filter" -> Kept(last.a1.f, ReceiverArray, 1)
            [] last.op = "concat" ->
                 NativeConcat(last.h, ReceiverArray, last.args)

C17_Witness ==
  /\ last.op = "slice"
  /\ ReceiverKind = "IterantArray"
  /\ ReceiverArray = <<Num(1), Num(2), Num(3)>>
  /\ last.a1 = Num(1) /\ last.a2 = Num(-1)
  /\ ItemsOf(objs, ret) = <<Num(2)>>

\* The invocations Array.prototype.map makes of fn over arr when none of
\* them throws.
MapCalls(f, arr) ==
  [i \in 1..Len(arr) |-> [f |-> f, a |-> <<arr[i], Num(i - 1)>>]]

\* C18: map on an IterantArray is eager: the mapper's invocations, one per
\* element in order, are made by the map call itself; when the mapper
\* throws, the exception comes out of that call at the first element, no
\* wrapper is returned, nothing is allocated, and the receiver still gives
\* the items it had.
C18_ArrayMapIsEager ==
  (/\ last.op = "map"
   /\ ReceiverKind = "IterantArray"
   /\ last.a1.t = "function")
  => IF Throws(last.a1.f) /\ ReceiverArray # <<>>
     THEN /\ err = "Error"
          /\ ret = Undef
          /\ objs = last.h
          /\ log = SubSeq(MapCalls(last.a1.f, ReceiverArray), 1, 1)
          /\ ItemsOf(objs, last.this) = ReceiverArray
     ELSE /\ err = ""
          /\ log = MapCalls(last.a1.f, ReceiverArray)
          /\ ItemsOf(objs, last.this) = ReceiverArray

C18_Witness ==
  /\ last.op = "map"
  /\ ReceiverKind = "IterantArray"
  /\ last.a1 = Fn("boom")
  /\ Len(ReceiverArray) >= 2
  /\ err = "Error"
  /\ ret = Undef
  /\ Len(log) = 1

\* What one argument of the sequence concat is to contribute: a string or a
\* value that is not iterable, itself; any other iterable, its own items
\* as they are (an array among them stays an array).
Contribution(h, x) ==
  IF x.t = "string" \/ ~HasSymbolIterator(h, x) THEN <<x>>
  ELSE ItemsOf(h, x)

RECURSIVE Contributions(_, _)
Contributions(h, args) ==
  IF args = <<>> THEN <<>>
  ELSE Contribution(h, Head(args)) \o Contributions(h, Tail(args))

\* C19: concat on an IterantSequence returns, without raising, a wrapper
\* that is a new object and not the receiver; it yields the receiver's items
\* followed, for each argument in order, by the argument's items when it is
\* iterable and not a string (one level: an array inside stays one item) and
\* by the argument itself otherwise; with no argument it yields the
\* receiver's items.
C19_SequenceConcatFlattensOneLevel ==
  (/\ last.op = "concat"
   /\ ReceiverKind = "IterantSequence")
  => /\ err = ""
     /\ ret # last.this
     /\ ret.v > Len(last.h)
     /\ IsWrapper(objs, ret)
     /\ ItemsOf(objs, ret) =
          ItemsOf(last.h, last.this) \o Contributions(last.h, last.args)

\* A nested array was passed: [7, [..]] contributes 7 and the inner array.
C19_Witness ==
  /\ last.op = "concat"
  /\ ReceiverKind = "IterantSequence"
  /\ Len(last.args) = 2
  /\ last.args[1] = Num(4)
  /\ KindOf(last.h, last.args[2]) = "Array"
  /\ Len(ItemsOf(last.h, last.this)) >= 2
  /\ LET n == Len(ItemsOf(last.h, last.this)) IN
       /\ Len(ItemsOf(objs, ret)) = n + 3
       /\ ItemsOf(objs, ret)[n + 1] = Num(4)
       /\ ItemsOf(objs, ret)[n + 2] = Num(7)
       /\ KindOf(objs, ItemsOf(objs, ret)[n + 3]) = "Array"

\* Every result of evaluating the path against the items that have xpath,
\* in the order of the items.
RECURSIVE PathResults(_, _)
PathResults(xs, path) ==
  IF xs = <<>> THEN <<>>
  ELSE (IF HasXPath(Head(xs)) THEN Node_xpath(Head(xs), path) ELSE <<>>)
         \o PathResults(Tail(xs), path)

\* C20: xpath with a null or undefined path raises TypeError at the call;
\* with any other path it returns a new generic Iterant, and draining that
\* wrapper yields, without raising, the results of the path on each item
\* that has xpath, in source order, an item without it (null and undefined
\* included) contributing nothing.
C20_XPathSkipsItemsWithoutIt ==
  /\ (last.op = "xpath" /\ (last.a1 = Null \/ last.a1 = Undef))
       => err = "TypeError" /\ objs = last.h
  /\ (last.op = "xpath" /\ last.a1 # Null /\ last.a1 # Undef)
       => /\ err = ""
          /\ ret.v > Len(last.h)
          /\ KindOf(objs, ret) = "Iterant"
  /\ (DrainedFresh("delegate") /\ Iterates(last.h, Stage.iterable))
       => /\ err = ""
          /\ out = PathResults(Source, Stage.p2)

\* C21: Iterant.isIterable(value, ignoreStrings) returns a boolean without
\* raising and without touching anything: false for null and undefined;
\* for a string, false exactly when ignoreStrings is the boolean true; for
\* a number, NaN, a boolean or an Error object, false; for an array, a
\* sequence, a generator object or a wrapper, true whatever ignoreStrings is.
C21_IsIterableIsTotal ==
  last.op = "Iterant.isIterable"
  => /\ err = ""
     /\ objs = last.h
     /\ ret = Bool(
          CASE last.this = Null \/ last.this = Undef -> FALSE
            [] last.this.t = "string" -> last.a1 # Bool(TRUE)
            [] last.this.t \in {"number", "boolean"} -> FALSE
            [] last.this = ErrorObject -> FALSE
            [] OTHER -> KindOf(last.h, last.this)
                          \in {"Array", "Sequence", "Generator"}
                                \cup WrapperKinds)

C21_Witness ==
  /\ last.op = "Iterant.isIterable"
  /\ last.this = Str("ab")
  /\ last.a1 = Num(1)
  /\ ret = Bool(TRUE)

\* C22: clone() on a wrapper of any class returns, without raising, a
\* wrapper that is another object than the receiver and yields the items
\* the receiver yields.
C22_CloneIsShallowCopy ==
  (last.op = "clone" /\ Iterates(last.h, last.this))
  => /\ err = ""
     /\ IsWrapper(objs, ret)
     /\ ret # last.this
     /\ ItemsOf(objs, ret) = ItemsOf(last.h, last.this)

\* The items toArray() gives on a new generic wrapper of x.
Rewrapped(h, x) ==
  Only({ ItemsOf(W.objs, W.value)
         : W \in {Iterant([objs |-> h, log |-> <<>>], x)} })

\* C23: slice without bounds keeps the contents.  The slice method of a
\* wrapper of any class over an iterable source returns, without raising, a
\* wrapper that is a new object and yields the receiver's items in order,
\* as does a new wrapper of it; and draining the generic slice(s) of an
\* iterable s yields the items of s in order.
C23_SliceWithoutBoundsIsIdentity ==
  /\ (/\ last.op = "slice"
      /\ last.a1 = Undef /\ last.a2 = Undef
      /\ Iterates(last.h, last.this))
       => /\ err = ""
          /\ IsWrapper(objs, ret)
          /\ ret # last.this
          /\ ret.v > Len(last.h)
          /\ ItemsOf(objs, ret) = ItemsOf(last.h, last.this)
          /\ Rewrapped(objs, ret) = Rewrapped(last.h, last.this)
  /\ (/\ DrainedFresh("slice")
      /\ Stage.p1 = Undef /\ Stage.p2 = Undef
      /\ Iterates(last.h, Stage.iterable))
       => /\ err = ""
          /\ out = Source

\* The argument of the last chain call is one the method is to reject.
InvalidCall ==
  CASE last.op = "sort"  -> last.a1 # Undef /\ last.a1.t # "function"
    [] last.op \in {"map", "filter"} -> last.a1.t # "function"
    [] last.op = "slice" ->
         \/ last.a1.t \notin {"undefined", "number"}
         \/ last.a1.t = "number" /\ (Negative(last.a1) \/ NonInteger(last.a1))
         \/ last.a2.t \notin {"undefined", "number"}
         \/ last.a2.t = "number" /\ (Negative(last.a2) \/ NonInteger(last.a2))
    [] last.op = "xpath" -> last.a1 = Null \/ last.a1 = Undef
    [] OTHER -> FALSE

\* The stage drained was built with an argument it is to reject.
InvalidStage ==
  CASE Stage.fn \in {"map", "filter"} -> Stage.p1.t # "function"
    [] Stage.fn = "slice" -> Stage.p1.t \notin {"undefined", "number"}
    [] OTHER -> FALSE

\* C24: when a chain method (slice, map, filter, sort, xpath) called with
\* an invalid argument raises TypeError, every object that existed before
\* the call is as it was, so the receiver yields what it yielded before;
\* when the TypeError comes instead at the consumption of the stage the
\* call built, every object but that stage is as it was, the stage's source
\* is not advanced and yields what it yielded before.
C24_FailedStepLeavesReceiverIntact ==
  /\ (InvalidCall /\ err = "TypeError")
       => /\ \A i \in 1..Len(last.h) : objs[i] = last.h[i]
          /\ ItemsOf(objs, last.this) = ItemsOf(last.h, last.this)
  /\ (/\ last.op \in {"Array.from", "toArray"}
      /\ KindOf(last.h, Drained) = "Generator"
      /\ Stage.state = "suspendedStart"
      /\ InvalidStage
      /\ err = "TypeError")
       => /\ \A i \in 1..Len(last.h) : i # Drained.v => objs[i] = last.h[i]
          /\ ItemsOf(objs, Stage.iterable) = ItemsOf(last.h, Stage.iterable)

\* A filter stage with a non-callable predicate over a generator source was
\* drained: TypeError, and the source still has its items to give.
C24_Witness ==
  /\ DrainedFresh("filter")
  /\ Stage.p1 = Num(4)
  /\ err = "TypeError"
  /\ KindOf(objs, Resolve(objs, Stage.iterable)) = "Generator"
  /\ objs[Resolve(objs, Stage.iterable).v].state = "suspendedStart"
  /\ Len(ItemsOf(objs, Stage.iterable)) >= 2

\* The last call built a lazy stage: a static generator function, a chain
\* method of a generic wrapper, or xpath.
BuiltLazyStage ==
  \/ last.op \in {"Iterant.map", "Iterant.filter", "Iterant.slice",
                  "Iterant.concat", "xpath"}
  \/ /\ last.op \in {"map", "filter", "slice", "concat"}
     /\ ReceiverKind = "Iterant"

\* The generator objects the last call allocated.
NewGenerators ==
  {i \in (Len(last.h) + 1)..Len(objs) : objs[i].kind = "Generator"}

\* What draining x would do in heap h: the callbacks it would invoke.
CallsToCome(h, x) == Array_from([objs |-> h, log |-> <<>>], x).log

\* xs is how ys begins.  Of a source that does not end, ItemsOf is the
\* items obtained before patience ran out.
IsPrefix(xs, ys) == Len(xs) <= Len(ys) /\ xs = SubSeq(ys, 1, Len(xs))

\* C25: building a lazy stage (map, filter, slice, concat, delegate) does no
\* work: no callback is invoked, no object that existed is changed (no
\* cursor advanced), and the stage built has not started.  Work comes with
\* the consumer's requests, each resuming where the one before stopped: the
\* item a request obtains followed by what the stage still has to give is
\* what it had to give before the request, and likewise for the callbacks
\* invoked.
C25_LazyStagesDoNoWorkUntilPulled ==
  /\ BuiltLazyStage
       => /\ log = <<>>
          /\ \A i \in 1..Len(last.h) : objs[i] = last.h[i]
          /\ \A g \in NewGenerators : objs[g].state = "suspendedStart"
  /\ (last.op = "next" /\ err = "")
       => /\ IsPrefix(ItemsOf(last.h, last.this),
                      out \o ItemsOf(objs, last.this))
          /\ IsPrefix(CallsToCome(last.h, last.this),
                      log \o CallsToCome(objs, last.this))
          /\ Iterates(last.h, last.this)
               => /\ out \o ItemsOf(objs, last.this)
                       = ItemsOf(last.h, last.this)
                  /\ log \o CallsToCome(objs, last.this)
                       = CallsToCome(last.h, last.this)

\* The second request on a map stage: it invoked the mapper once, on the
\* second item of the source.
C25_Witness ==
  /\ last.op = "next"
  /\ last.h[last.this.v].fn = "map"
  /\ last.h[last.this.v].state = "suspendedYield"
  /\ last.h[last.this.v].pos = 1
  /\ Len(log) = 1
  /\ log[1].f = "dbl"
  /\ out = <<Apply("dbl", log[1].a)>>
  /\ Len(ItemsOf(objs, last.this)) >= 1

\* Iterating x pulls through the generator g: x is g, a wrapper of it, or a
\* stage downstream of it.
RECURSIVE Through(_, _, _)
Through(h, x, g) ==
  /\ KindOf(h, Resolve(h, x)) = "Generator"
  /\ \/ Resolve(h, x).v = g
     \/ Through(h, h[Resolve(h, x).v].iterable, g)

\* The map stages the last call pulled through, each with a mapper that
\* returns and that no other stage uses.
MapStages ==
  {g \in 1..Len(last.h) :
     /\ last.h[g].kind = "Generator"
     /\ Through(last.h, last.this, g)
     /\ last.h[g].fn = "map"
     /\ last.h[g].p1.t = "function"
     /\ ~Throws(last.h[g].p1.f)
     /\ \A i \in 1..Len(objs) : i # g => objs[i].p1 # last.h[g].p1}

\* What the upstream of stage g has left to give in heap h: the items of an
\* array or sequence past the stage's cursor, or what a generator upstream
\* would still yield.
UpstreamRest(h, g) ==
  IF KindOf(h, Resolve(h, h[g].iterable)) \in {"Array", "Sequence"}
  THEN SubSeq(h[Resolve(h, h[g].iterable).v].items, h[g].pos + 1,
              Len(h[Resolve(h, h[g].iterable).v].items))
  ELSE ItemsOf(h, h[g].iterable)

\* The items stage g received from its upstream during the last call.
Received(g) == objs[g].pos - last.h[g].pos

\* C26: a map stage takes one upstream item per item it gives.  Over any
\* consumption (one request or a drain, of the stage or of a stage
\* downstream of it) that ends without an exception, the mapper is invoked
\* once per upstream item received, on those items in upstream order, and
\* the upstream has left exactly what it had less those items: none is
\* skipped or pulled twice.  A request on the stage that obtains an item
\* receives exactly one upstream item.
C26_MapPullsOneForOne ==
  (last.op \in {"next", "toArray", "Array.from"} /\ err = "")
  => \A g \in MapStages :
       /\ Received(g) >= 0
       /\ Len(CallsOf(last.h[g].p1.f)) = Received(g)
       /\ \A j \in 1..Received(g) :
            CallsOf(last.h[g].p1.f)[j].a = <<UpstreamRest(last.h, g)[j]>>
       /\ IsPrefix(SubSeq(UpstreamRest(last.h, g), Received(g) + 1,
                           Len(UpstreamRest(last.h, g))),
                    UpstreamRest(objs, g))
       /\ Iterates(last.h, last.h[g].iterable)
            => UpstreamRest(objs, g)
                 = SubSeq(UpstreamRest(last.h, g), Received(g) + 1,
                          Len(UpstreamRest(last.h, g)))
       /\ (last.op = "next" /\ last.this = Ref(g) /\ out # <<>>)
            => Received(g) = 1

\* A request on a filter stage downstream of the map stage made the map
\* stage receive two upstream items and invoke its mapper on each.
C26_Witness ==
  /\ last.op = "next"
  /\ last.h[last.this.v].fn = "filter"
  /\ \E g \in MapStages :
       /\ last.h[last.this.v].iterable = Ref(g)
       /\ Received(g) = 2
       /\ Len(CallsOf("inc")) = 2
       /\ objs[g].pos = 3

\* The slice stages of heap h that have a number for begin and a number
\* not below zero for end.
BoundedSlices(h) ==
  {g \in 1..Len(h) :
     /\ h[g].kind = "Generator"
     /\ h[g].fn = "slice"
     /\ h[g].p1.t = "number"
     /\ h[g].p2.t = "number"
     /\ h[g].p2.v >= 0}

\* The generator that does not end, when stage g pulls from it directly.
EndlessUnder(h, g) ==
  {u \in 1..Len(h) :
     /\ Resolve(h, h[g].iterable) = Ref(u)
     /\ h[u].kind = "Generator"
     /\ h[u].fn = "naturals"}

Iterated == Resolve(last.h, last.this)

\* C28: a generator is single-pass and an array repeatable.  A drain
\* (Array.from, toArray) that ends without an exception leaves the generator
\* it drained completed, with nothing more to give; draining a wrapper
\* whose generator has completed gives no item, and reducing it returns the
\* initial value without one invocation of the reducer; toArray() on a
\* wrapper whose source is an array gives the array's items, every time.
C28_GeneratorsAreSinglePass ==
  /\ (/\ last.op \in {"Array.from", "toArray"}
      /\ KindOf(last.h, Iterated) = "Generator"
      /\ err = "")
       => /\ objs[Iterated.v].state = "completed"
          /\ ItemsOf(objs, last.this) = <<>>
  /\ (/\ last.op \in {"Array.from", "toArray"}
      /\ KindOf(last.h, Iterated) = "Generator"
      /\ last.h[Iterated.v].state = "completed")
       => /\ err = ""
          /\ out = <<>>
          /\ log = <<>>
  /\ (/\ last.op \in {"reduce", "Iterant.reduce"}
      /\ KindOf(last.h, Iterated) = "Generator"
      /\ last.h[Iterated.v].state = "completed")
       => /\ err = ""
          /\ ret = last.a2
          /\ log = <<>>
  /\ (/\ last.op = "toArray"
      /\ KindOf(last.h, Iterated) = "Array")
       => /\ err = ""
          /\ out = last.h[Iterated.v].items
          /\ ItemsOf(objs, last.this) = out

\* The second toArray() on a wrapper of a generator that gave two items or
\* more on the first.
C28_Witness ==
  /\ last.op = "toArray"
  /\ KindOf(last.h, Iterated) = "Generator"
  /\ last.h[Iterated.v].state = "completed"
  /\ last.h[Iterated.v].pos >= 2
  /\ out = <<>>
  /\ err = ""

\* Iterant.reduce(arr, fn, init) on the array the receiver of the last call
\* wraps, in the heap the call started from.
GenericReduce ==
  Iterant_reduce([objs |-> last.h, log |-> <<>>],
                 last.h[last.this.v].iterable, last.a1, last.a2)

GenericSort ==
  Iterant_prototype_sort([objs |-> last.h, log |-> <<>>], last.this, last.a1)

\* C30: IterantSequence.prototype.sort first emits its warning and then
\* ends exactly as Iterant.prototype.sort on the same receiver: the same
\* outcome, result and heap.  With a valid comparator the result is an
\* IterantArray over a new array that holds the receiver's items reordered,
\* and no object that existed before the call is modified, so the receiver
\* yields its items in their original order afterwards.
C30_SequenceSortWarnsThenSortsGenerically ==
  (last.op = "sort" /\ ReceiverKind = "IterantSequence")
  => /\ log # <<>>
     /\ log[1] = [f |-> "console.warn", a |-> <<>>]
     /\ Tail(log) = GenericSort.log
     /\ err = GenericSort.thrown
     /\ ret = GenericSort.value
     /\ objs = GenericSort.objs
     /\ (~InvalidCall =>
           /\ err = ""
           /\ KindOf(objs, ret) = "IterantArray"
           /\ objs[ret.v].iterable.v > Len(last.h)
           /\ KindOf(objs, objs[ret.v].iterable) = "Array"
           /\ IsPermutation(ItemsOf(last.h, last.this),
                            objs[objs[ret.v].iterable.v].items))
     /\ \A i \in 1..Len(last.h) : objs[i] = last.h[i]
     /\ ItemsOf(objs, last.this) = ItemsOf(last.h, last.this)

\* A sort of an IterantSequence that gives another order than the
\* sequence has.
C30_Witness ==
  /\ last.op = "sort"
  /\ ReceiverKind = "IterantSequence"
  /\ err = ""
  /\ Len(ItemsOf(last.h, last.this)) >= 2
  /\ objs[objs[ret.v].iterable.v].items # ItemsOf(last.h, last.this)
  /\ ItemsOf(objs, last.this) = ItemsOf(last.h, last.this)
  /\ log[1].f = "console.warn"

=============================================================================
